---------------------------- MODULE Spec2Model ----------------------------
(***************************************************************************)
(* Model of the ocascripts calibration-lineage tool (fitscollectcalib.py). *)
(*                                                                         *)
(* Python strings and paths are sequences of one-character strings, so     *)
(* that file-name parsing, path building and the deduplication keys are    *)
(* computed character by character as the code computes them.  Python's    *)
(* None is the empty sequence: every basename, suffix and path the code    *)
(* produces is non-empty, so the encoding is unambiguous.                  *)
(***************************************************************************)
EXTENDS Integers, Sequences, FiniteSets, TLC

VARIABLES
    fs,           \* the read-only file hierarchy: existing directory -> its listing
    args,         \* the parsed command line (argparse Namespace, after main's flag handling)
    file_list,    \* process_files' file_list: the input lines
    pc,           \* position in process_files: "start", "loop", "done", "crashed"
    root_path,    \* process_files' root_path (None until resolved)
    idx,          \* index of the next element of file_list the for loop takes
    seen,         \* process_files' seen set (dedup keys already printed)
    stats,        \* process_files' stats counters
    out,          \* standard output: one record per print call of emit
    calib_files,  \* process_files' calib_files: result of the last walk
    dbg,          \* log records written during the last loop iteration
    exc,          \* the exception that ended the run ("none" while there is none)
    summary,      \* the final summary line (None until logged)
    json,         \* fitscollectjson reading the printed lines: its locals and output
    sel,          \* fitscollect (the bulk selector): main's locals, output and return code
    dl,           \* ocadb-downloader: its locals, the token server and the local directory
    pq,           \* fitscollectparquet: main's locals, output and return code
    loc,          \* one call of find_processed_file_dir (and of reconstruct_path): arguments, results
    conv          \* one call of ensure_oca_julian: its argument and result

\* the state of fitscollectcalib
calib_vars == <<fs, args, file_list, pc, root_path, idx, seen, stats, out,
                calib_files, dbg, exc, summary>>

\* the state of the other programs of the package, seen from each of them
siblings == <<json, sel, dl, pq, loc, conv>>
json_others == <<calib_vars, sel, dl, pq, loc, conv>>
sel_others == <<args, file_list, pc, root_path, idx, seen, stats, out,
                calib_files, dbg, exc, summary, json, dl, pq, loc, conv>>
dl_others == <<calib_vars, json, sel, pq, loc, conv>>
pq_others == <<args, file_list, pc, root_path, idx, seen, stats, out,
               calib_files, dbg, exc, summary, json, sel, dl, loc, conv>>
loc_others == <<calib_vars, json, sel, dl, pq, conv>>
conv_others == <<calib_vars, json, sel, dl, pq, loc>>

vars == <<calib_vars, siblings>>

---------------------------------------------------------------------------
(* Characters and strings *)

None == <<>>

Digits == {"0","1","2","3","4","5","6","7","8","9"}

Letters == {"a","b","c","d","e","f","g","h","i","j","k","l","m",
            "n","o","p","q","r","s","t","u","v","w","x","y","z",
            "A","B","C","D","E","F","G","H","I","J","K","L","M",
            "N","O","P","Q","R","S","T","U","V","W","X","Y","Z"}

\* the regular-expression class \w
WordChars == Letters \cup Digits \cup {"_"}

\* the characters str.strip() removes
Whitespace == {" ", "\t", "\n", "\r"}

MinOf(S) == CHOOSE x \in S : \A y \in S : x <= y

MaxOf(S) == CHOOSE x \in S : \A y \in S : x >= y

\* s[a:b] of Python for 0 <= a <= b (0-based, end exclusive, clipped to the length)
Slice(s, a, b) == SubSeq(s, a + 1, IF b <= Len(s) THEN b ELSE Len(s))

\* s[a:] of Python
SliceFrom(s, a) == SubSeq(s, a + 1, Len(s))

StartsWith(s, p) == Len(s) >= Len(p) /\ SubSeq(s, 1, Len(p)) = p

EndsWith(s, p) == Len(s) >= Len(p) /\ SubSeq(s, Len(s) - Len(p) + 1, Len(s)) = p

\* s has t at 1-based position k
HasAt(s, k, t) == k + Len(t) - 1 <= Len(s) /\ SubSeq(s, k, k + Len(t) - 1) = t

strip(s) ==
    LET keep == {k \in 1..Len(s) : s[k] \notin Whitespace}
    IN  IF keep = {} THEN <<>> ELSE SubSeq(s, MinOf(keep), MaxOf(keep))

s_processed_ofp == <<"p","r","o","c","e","s","s","e","d","-","o","f","p">>
s_science == <<"s","c","i","e","n","c","e">>
s_zeros == <<"z","e","r","o","s">>
s_darks == <<"d","a","r","k","s">>
s_flats == <<"f","l","a","t","s">>
s_raw == <<"r","a","w">>
s_zdf == <<"z","d","f">>
s_master_z == <<"m","a","s","t","e","r","_","z">>
s_master_d == <<"m","a","s","t","e","r","_","d">>
s_master_f_ == <<"m","a","s","t","e","r","_","f","_">>
s_fits == <<"f","i","t","s">>
s_fz == <<"f","z">>
s_dot_fits == <<".","f","i","t","s">>
s_dot_fz == <<".","f","z">>

---------------------------------------------------------------------------
(* pathlib *)

\* the parts of a path string: split at "/", empty and "." parts dropped
RECURSIVE path_parts(_)
path_parts(p) ==
    IF p = <<>> THEN <<>>
    ELSE LET slashes == {k \in 1..Len(p) : p[k] = "/"}
             cut == IF slashes = {} THEN Len(p) + 1 ELSE MinOf(slashes)
             head == SubSeq(p, 1, cut - 1)
             rest == SubSeq(p, cut + 1, Len(p))
         IN  IF head = <<>> \/ head = <<".">>
             THEN path_parts(rest)
             ELSE <<head>> \o path_parts(rest)

\* Path(p).name
PathName(p) ==
    LET parts == path_parts(p)
    IN  IF parts = <<>> THEN <<>> ELSE parts[Len(parts)]

\* str(Path(p) / c) for a normalised p and a single part c
PathJoin(p, c) == p \o <<"/">> \o c

\* Path.is_dir() on the modelled file hierarchy
is_dir(p) == p \in DOMAIN fs

is_fits_name(name) == EndsWith(name, s_dot_fits)

is_fz_name(name) == EndsWith(name, s_dot_fz)

\* chain(d.glob('*.fits'), d.glob('*.fz')): the names, in listing order
glob_fits_fz(d) ==
    IF is_dir(d)
    THEN SelectSeq(fs[d], is_fits_name) \o SelectSeq(fs[d], is_fz_name)
    ELSE <<>>

---------------------------------------------------------------------------
(* Identifier codec *)

\* the groups <<base, suff>> of
\* re.match(r'(?P<base>\w{5}.\d{4}_\d{5})(?:_(?P<suff>\w+))?\.(?P<ext>fits|fz)', name)
re_match_name(name) ==
    LET n == Len(name)
        base_ok == /\ n >= 16
                   /\ \A k \in 1..5 : name[k] \in WordChars
                   /\ name[6] # "\n"
                   /\ \A k \in 7..10 : name[k] \in Digits
                   /\ name[11] = "_"
                   /\ \A k \in 12..16 : name[k] \in Digits
        \* last position of the greedy \w+ that starts at position 18
        run == {e \in 18..n : \A k \in 18..e : name[k] \in WordChars}
        has_ext(p) == /\ p <= n
                      /\ name[p] = "."
                      /\ (HasAt(name, p + 1, s_fits) \/ HasAt(name, p + 1, s_fz))
        with_suff == /\ n >= 18
                     /\ name[17] = "_"
                     /\ run # {}
                     /\ has_ext(MaxOf(run) + 1)
    IN  IF ~base_ok THEN <<None, None>>
        ELSE IF with_suff THEN <<SubSeq(name, 1, 16), SubSeq(name, 18, MaxOf(run))>>
        ELSE IF has_ext(17) THEN <<SubSeq(name, 1, 16), None>>
        ELSE <<None, None>>

\* returns <<basename, suffix>>, <<None, None>> when the name does not match
extract_basename(file_path) == re_match_name(PathName(file_path))

---------------------------------------------------------------------------
(* Location resolver *)

\* p / c1 / c2 / ... ; pathlib drops an empty part
RECURSIVE PathJoinAll(_, _)
PathJoinAll(p, cs) ==
    IF cs = <<>> THEN p
    ELSE PathJoinAll(IF Head(cs) = <<>> THEN p ELSE PathJoin(p, Head(cs)), Tail(cs))

\* mutant: the science directory of a name without suffix is returned unchecked
find_processed_file_dir_unchecked(basename, suffix, rp) ==
    LET tel == Slice(basename, 0, 4)
        science_dir == PathJoinAll(rp, <<tel, s_processed_ofp, s_science,
                                         Slice(basename, 6, 10), basename>>)
    IN  IF suffix = None \/ suffix = s_zdf THEN science_dir
        ELSE IF suffix = s_master_z
             THEN PathJoinAll(rp, <<tel, s_processed_ofp, s_zeros, basename>>)
        ELSE IF suffix = s_master_d
             THEN PathJoinAll(rp, <<tel, s_processed_ofp, s_darks, basename>>)
        ELSE IF StartsWith(suffix, s_master_f_)
             THEN PathJoinAll(rp, <<tel, s_processed_ofp, s_flats,
                                    SliceFrom(suffix, Len(s_master_f_)), basename>>)
        ELSE None

find_processed_file_dir(basename, suffix, rp) ==
    LET tel == Slice(basename, 0, 4)
        science_dir == PathJoinAll(rp, <<tel, s_processed_ofp, s_science,
                                         Slice(basename, 6, 10), basename>>)
    IN  IF suffix = None
        THEN (IF is_dir(science_dir) THEN science_dir ELSE None)
        ELSE IF suffix = s_zdf THEN science_dir
        ELSE IF suffix = s_master_z
             THEN PathJoinAll(rp, <<tel, s_processed_ofp, s_zeros, basename>>)
        ELSE IF suffix = s_master_d
             THEN PathJoinAll(rp, <<tel, s_processed_ofp, s_darks, basename>>)
        ELSE IF StartsWith(suffix, s_master_f_)
             THEN PathJoinAll(rp, <<tel, s_processed_ofp, s_flats,
                                    SliceFrom(suffix, Len(s_master_f_)), basename>>)
        ELSE None

---------------------------------------------------------------------------
(* Lineage walker *)

\* Python's interpreter recursion limit, scaled down: a call of
\* find_calibration_files nested this deep raises RecursionError
RecursionLimit == 6

\* result of a (partial) walk: the tuples appended to calib_files, the log
\* records written, and the exception raised ("none" when it returned)
WalkResult(files, log, e) == [files |-> files, log |-> log, exc |-> e]

NoResult == WalkResult(<<>>, <<>>, "none")

LogRec(msg, basename, suffix, at) ==
    [msg |-> msg, basename |-> basename, suffix |-> suffix, at |-> at]

\* mutant: the child is given its parent's level
calib_tuple_parent_level(canonical, level, kind, f_basename, f_suffix) ==
    [path |-> canonical, level |-> level, kind |-> kind,
     basename |-> f_basename, suffix |-> f_suffix]

\* the tuple (canonical, level + 1, kind, f_basename, f_suffix) appended for a child
calib_tuple(canonical, level, kind, f_basename, f_suffix) ==
    [path |-> canonical, level |-> level + 1, kind |-> kind,
     basename |-> f_basename, suffix |-> f_suffix]

\* the 'if args.<kind>' test of the branch taken for a master child
master_requested(f_suffix, a) ==
    IF f_suffix = s_master_z THEN a.master_zero
    ELSE IF f_suffix = s_master_d THEN a.master_dark
    ELSE a.master_flat

\* mutant: a child is entered only when it is itself requested
need_inside_if_emitted(f_suffix, a) ==
    /\ master_requested(f_suffix, a)
    /\ IF f_suffix = s_master_z THEN a.raw_zero
       ELSE IF f_suffix = s_master_d THEN a.master_zero \/ a.raw_zero \/ a.raw_dark
       ELSE a.master_dark \/ a.master_zero \/ a.raw_zero \/ a.raw_dark \/ a.raw_flat

\* mutant: a master dark is not entered for a master zero
need_inside_dark_for_raw_only(f_suffix, a) ==
    IF f_suffix = s_master_z THEN a.raw_zero
    ELSE IF f_suffix = s_master_d THEN a.raw_zero \/ a.raw_dark
    ELSE a.master_dark \/ a.master_zero \/ a.raw_zero \/ a.raw_dark \/ a.raw_flat

\* mutant: a master zero is entered when master_zero, not raw_zero, is requested
need_inside_zero_for_master(f_suffix, a) ==
    IF f_suffix = s_master_z THEN a.master_zero
    ELSE IF f_suffix = s_master_d THEN a.master_zero \/ a.raw_zero \/ a.raw_dark
    ELSE a.master_dark \/ a.master_zero \/ a.raw_zero \/ a.raw_dark \/ a.raw_flat

\* need_inside of the branch taken for a master child with suffix f_suffix
need_inside(f_suffix, a) ==
    IF f_suffix = s_master_z THEN a.raw_zero
    ELSE IF f_suffix = s_master_d THEN a.master_zero \/ a.raw_zero \/ a.raw_dark
    ELSE a.master_dark \/ a.master_zero \/ a.raw_zero \/ a.raw_dark \/ a.raw_flat

master_kind(f_suffix) ==
    IF f_suffix = s_master_z THEN "master_zero"
    ELSE IF f_suffix = s_master_d THEN "master_dark"
    ELSE "master_flat"

RECURSIVE find_calibration_files(_, _, _, _, _)

\* mutant: a raw file is yielded with the path it was found at
visit_parsed_raw_in_place(f, f_basename, f_suffix, level, basename, suffix, rp, a) ==
    LET checking == <<LogRec("Checking file", f_basename, f_suffix, f)>>
    IN  IF f_basename = basename /\ f_suffix = suffix
        THEN NoResult                       \* skip the original file itself
        ELSE IF f_suffix = None
        THEN IF f_basename = None
             THEN \* f_basename[6:10] on None
                  WalkResult(<<>>, checking, "TypeError")
             ELSE LET canonical == PathJoin(find_processed_file_dir(basename, suffix, rp), f)
                      raw(kind, wanted) ==
                          WalkResult(IF wanted
                                     THEN <<calib_tuple(canonical, level, kind, f_basename, None)>>
                                     ELSE <<>>,
                                     checking, "none")
                  IN  IF suffix = s_master_z THEN raw("raw_zero", a.raw_zero)
                      ELSE IF suffix = s_master_d THEN raw("raw_dark", a.raw_dark)
                      ELSE IF suffix # None /\ StartsWith(suffix, s_master_f_)
                           THEN raw("raw_flat", a.raw_flat)
                      ELSE IF suffix = s_zdf /\ f_basename = basename
                           THEN WalkResult(<<>>, checking, "none")
                      ELSE WalkResult(<<>>,
                               checking \o <<LogRec("Unexpected RAW", f_basename, suffix, f)>>,
                               "none")
        ELSE IF \/ f_suffix = s_master_z
                \/ f_suffix = s_master_d
                \/ StartsWith(f_suffix, s_master_f_)
        THEN LET own == IF master_requested(f_suffix, a)
                        THEN <<calib_tuple(
                                 PathJoin(find_processed_file_dir(f_basename, f_suffix, rp), f),
                                 level, master_kind(f_suffix), f_basename, f_suffix)>>
                        ELSE <<>>
                 sub == IF need_inside(f_suffix, a)
                        THEN find_calibration_files(level + 1, f_basename, f_suffix, rp, a)
                        ELSE NoResult
             IN  WalkResult(own \o sub.files, checking \o sub.log, sub.exc)
        ELSE WalkResult(<<>>, checking, "none")

\* mutant: a child is yielded after the nodes of its recursion
visit_parsed_post_order(f, f_basename, f_suffix, level, basename, suffix, rp, a) ==
    LET checking == <<LogRec("Checking file", f_basename, f_suffix, f)>>
    IN  IF f_basename = basename /\ f_suffix = suffix
        THEN NoResult                       \* skip the original file itself
        ELSE IF f_suffix = None
        THEN IF f_basename = None
             THEN \* f_basename[6:10] on None
                  WalkResult(<<>>, checking, "TypeError")
             ELSE LET canonical == PathJoinAll(rp, <<Slice(f_basename, 0, 4), s_raw,
                                       Slice(f_basename, 6, 10), f_basename \o s_dot_fits>>)
                      raw(kind, wanted) ==
                          WalkResult(IF wanted
                                     THEN <<calib_tuple(canonical, level, kind, f_basename, None)>>
                                     ELSE <<>>,
                                     checking, "none")
                  IN  IF suffix = s_master_z THEN raw("raw_zero", a.raw_zero)
                      ELSE IF suffix = s_master_d THEN raw("raw_dark", a.raw_dark)
                      ELSE IF suffix # None /\ StartsWith(suffix, s_master_f_)
                           THEN raw("raw_flat", a.raw_flat)
                      ELSE IF suffix = s_zdf /\ f_basename = basename
                           THEN WalkResult(<<>>, checking, "none")
                      ELSE WalkResult(<<>>,
                               checking \o <<LogRec("Unexpected RAW", f_basename, suffix, f)>>,
                               "none")
        ELSE IF \/ f_suffix = s_master_z
                \/ f_suffix = s_master_d
                \/ StartsWith(f_suffix, s_master_f_)
        THEN LET own == IF master_requested(f_suffix, a)
                        THEN <<calib_tuple(
                                 PathJoin(find_processed_file_dir(f_basename, f_suffix, rp), f),
                                 level, master_kind(f_suffix), f_basename, f_suffix)>>
                        ELSE <<>>
                 sub == IF need_inside(f_suffix, a)
                        THEN find_calibration_files(level + 1, f_basename, f_suffix, rp, a)
                        ELSE NoResult
             IN  WalkResult(sub.files \o own, checking \o sub.log, sub.exc)
        ELSE WalkResult(<<>>, checking, "none")

\* mutant: a raw file found in any master directory is a raw zero
visit_parsed_raw_always_zero(f, f_basename, f_suffix, level, basename, suffix, rp, a) ==
    LET checking == <<LogRec("Checking file", f_basename, f_suffix, f)>>
    IN  IF f_basename = basename /\ f_suffix = suffix
        THEN NoResult                       \* skip the original file itself
        ELSE IF f_suffix = None
        THEN IF f_basename = None
             THEN \* f_basename[6:10] on None
                  WalkResult(<<>>, checking, "TypeError")
             ELSE LET canonical == PathJoinAll(rp, <<Slice(f_basename, 0, 4), s_raw,
                                       Slice(f_basename, 6, 10), f_basename \o s_dot_fits>>)
                      raw(kind, wanted) ==
                          WalkResult(IF wanted
                                     THEN <<calib_tuple(canonical, level, kind, f_basename, None)>>
                                     ELSE <<>>,
                                     checking, "none")
                  IN  IF suffix = s_master_z THEN raw("raw_zero", a.raw_zero)
                      ELSE IF suffix = s_master_d THEN raw("raw_zero", a.raw_zero)
                      ELSE IF suffix # None /\ StartsWith(suffix, s_master_f_)
                           THEN raw("raw_zero", a.raw_zero)
                      ELSE IF suffix = s_zdf /\ f_basename = basename
                           THEN WalkResult(<<>>, checking, "none")
                      ELSE WalkResult(<<>>,
                               checking \o <<LogRec("Unexpected RAW", f_basename, suffix, f)>>,
                               "none")
        ELSE IF \/ f_suffix = s_master_z
                \/ f_suffix = s_master_d
                \/ StartsWith(f_suffix, s_master_f_)
        THEN LET own == IF master_requested(f_suffix, a)
                        THEN <<calib_tuple(
                                 PathJoin(find_processed_file_dir(f_basename, f_suffix, rp), f),
                                 level, master_kind(f_suffix), f_basename, f_suffix)>>
                        ELSE <<>>
                 sub == IF need_inside(f_suffix, a)
                        THEN find_calibration_files(level + 1, f_basename, f_suffix, rp, a)
                        ELSE NoResult
             IN  WalkResult(own \o sub.files, checking \o sub.log, sub.exc)
        ELSE WalkResult(<<>>, checking, "none")

\* mutant: the file of the node being expanded is examined like any other
visit_parsed_no_self_skip(f, f_basename, f_suffix, level, basename, suffix, rp, a) ==
    LET checking == <<LogRec("Checking file", f_basename, f_suffix, f)>>
    IN  IF f_suffix = None
        THEN IF f_basename = None
             THEN \* f_basename[6:10] on None
                  WalkResult(<<>>, checking, "TypeError")
             ELSE LET canonical == PathJoinAll(rp, <<Slice(f_basename, 0, 4), s_raw,
                                       Slice(f_basename, 6, 10), f_basename \o s_dot_fits>>)
                      raw(kind, wanted) ==
                          WalkResult(IF wanted
                                     THEN <<calib_tuple(canonical, level, kind, f_basename, None)>>
                                     ELSE <<>>,
                                     checking, "none")
                  IN  IF suffix = s_master_z THEN raw("raw_zero", a.raw_zero)
                      ELSE IF suffix = s_master_d THEN raw("raw_dark", a.raw_dark)
                      ELSE IF suffix # None /\ StartsWith(suffix, s_master_f_)
                           THEN raw("raw_flat", a.raw_flat)
                      ELSE IF suffix = s_zdf /\ f_basename = basename
                           THEN WalkResult(<<>>, checking, "none")
                      ELSE WalkResult(<<>>,
                               checking \o <<LogRec("Unexpected RAW", f_basename, suffix, f)>>,
                               "none")
        ELSE IF \/ f_suffix = s_master_z
                \/ f_suffix = s_master_d
                \/ StartsWith(f_suffix, s_master_f_)
        THEN LET own == IF master_requested(f_suffix, a)
                        THEN <<calib_tuple(
                                 PathJoin(find_processed_file_dir(f_basename, f_suffix, rp), f),
                                 level, master_kind(f_suffix), f_basename, f_suffix)>>
                        ELSE <<>>
                 sub == IF need_inside(f_suffix, a)
                        THEN find_calibration_files(level + 1, f_basename, f_suffix, rp, a)
                        ELSE NoResult
             IN  WalkResult(own \o sub.files, checking \o sub.log, sub.exc)
        ELSE WalkResult(<<>>, checking, "none")

\* one pass of the for loop's body over the listed name f, which
\* extract_basename parsed to f_basename, f_suffix
visit_parsed(f, f_basename, f_suffix, level, basename, suffix, rp, a) ==
    LET checking == <<LogRec("Checking file", f_basename, f_suffix, f)>>
    IN  IF f_basename = basename /\ f_suffix = suffix
        THEN NoResult                       \* skip the original file itself
        ELSE IF f_suffix = None
        THEN IF f_basename = None
             THEN \* f_basename[6:10] on None
                  WalkResult(<<>>, checking, "TypeError")
             ELSE LET canonical == PathJoinAll(rp, <<Slice(f_basename, 0, 4), s_raw,
                                       Slice(f_basename, 6, 10), f_basename \o s_dot_fits>>)
                      raw(kind, wanted) ==
                          WalkResult(IF wanted
                                     THEN <<calib_tuple(canonical, level, kind, f_basename, None)>>
                                     ELSE <<>>,
                                     checking, "none")
                  IN  IF suffix = s_master_z THEN raw("raw_zero", a.raw_zero)
                      ELSE IF suffix = s_master_d THEN raw("raw_dark", a.raw_dark)
                      ELSE IF suffix # None /\ StartsWith(suffix, s_master_f_)
                           THEN raw("raw_flat", a.raw_flat)
                      ELSE IF suffix = s_zdf /\ f_basename = basename
                           THEN WalkResult(<<>>, checking, "none")
                      ELSE WalkResult(<<>>,
                               checking \o <<LogRec("Unexpected RAW", f_basename, suffix, f)>>,
                               "none")
        ELSE IF \/ f_suffix = s_master_z
                \/ f_suffix = s_master_d
                \/ StartsWith(f_suffix, s_master_f_)
        THEN LET own == IF master_requested(f_suffix, a)
                        THEN <<calib_tuple(
                                 PathJoin(find_processed_file_dir(f_basename, f_suffix, rp), f),
                                 level, master_kind(f_suffix), f_basename, f_suffix)>>
                        ELSE <<>>
                 sub == IF need_inside(f_suffix, a)
                        THEN find_calibration_files(level + 1, f_basename, f_suffix, rp, a)
                        ELSE NoResult
             IN  WalkResult(own \o sub.files, checking \o sub.log, sub.exc)
        ELSE WalkResult(<<>>, checking, "none")

visit_split(f, bs, level, basename, suffix, rp, a) ==
    visit_parsed(f, bs[1], bs[2], level, basename, suffix, rp, a)

visit_file(f, level, basename, suffix, rp, a) ==
    visit_split(f, extract_basename(f), level, basename, suffix, rp, a)

\* the for loop over the listed names; an exception ends it and loses calib_files
RECURSIVE scan_dir(_, _, _, _, _, _)
scan_dir(names, level, basename, suffix, rp, a) ==
    IF names = <<>> THEN NoResult
    ELSE LET one == visit_file(Head(names), level, basename, suffix, rp, a)
         IN  IF one.exc # "none" THEN WalkResult(<<>>, one.log, one.exc)
             ELSE LET rest == scan_dir(Tail(names), level, basename, suffix, rp, a)
                  IN  IF rest.exc # "none"
                      THEN WalkResult(<<>>, one.log \o rest.log, rest.exc)
                      ELSE WalkResult(one.files \o rest.files, one.log \o rest.log, "none")

\* mutant: no 'if processed_dir is None' guard, None.glob raises
find_calibration_files_unguarded(level, basename, suffix, rp, a) ==
    IF level >= RecursionLimit THEN WalkResult(<<>>, <<>>, "RecursionError")
    ELSE LET processed_dir == find_processed_file_dir(basename, suffix, rp)
         IN  IF processed_dir = None THEN WalkResult(<<>>, <<>>, "AttributeError")
             ELSE LET r == scan_dir(glob_fits_fz(processed_dir), level, basename, suffix, rp, a)
                  IN  WalkResult(r.files,
                                 <<LogRec("Processing", basename, suffix, processed_dir)>> \o r.log,
                                 r.exc)

find_calibration_files(level, basename, suffix, rp, a) ==
    IF level >= RecursionLimit THEN WalkResult(<<>>, <<>>, "RecursionError")
    ELSE LET processed_dir == find_processed_file_dir(basename, suffix, rp)
         IN  IF processed_dir = None THEN NoResult
             ELSE LET r == scan_dir(glob_fits_fz(processed_dir), level, basename, suffix, rp, a)
                  IN  WalkResult(r.files,
                                 <<LogRec("Processing", basename, suffix, processed_dir)>> \o r.log,
                                 r.exc)

---------------------------------------------------------------------------
(* Root detection *)

s_data_fits == <<"/","d","a","t","a","/","f","i","t","s">>
s_camk_fits == <<"/","w","o","r","k","/","v","e","l","a","/","o","c","a","/","f","i","t","s">>
s_mik_fits == <<"/","U","s","e","r","s","/","S","h","a","r","e","d","/",
                "o","c","a","_","d","a","t","a","/","f","i","t","s">>

\* returns <<schema, path>>, <<None, None>> when no proposition is a directory
detect_root_schema ==
    IF is_dir(s_data_fits) THEN <<"OCM", s_data_fits>>
    ELSE IF is_dir(s_camk_fits) THEN <<"CAMK", s_camk_fits>>
    ELSE IF is_dir(s_mik_fits) THEN <<"Mik", s_mik_fits>>
    ELSE <<None, None>>

---------------------------------------------------------------------------
(* Emitter *)

InitStats == [source |-> 0, master_zero |-> 0, master_dark |-> 0, master_flat |-> 0,
              raw_zero |-> 0, raw_dark |-> 0, raw_flat |-> 0, duplicates |-> 0]

Spaces(n) == [k \in 1..n |-> " "]

\* the dedup key emit builds from its last two arguments
dedup_key(dedup_basename, dedup_suffix) ==
    IF dedup_suffix # None
    THEN dedup_basename \o <<"_">> \o dedup_suffix
    ELSE dedup_basename

\* mutant: the indent is one more than that of the line printed last
emit_indent_from_output(st, path_str, level, kind, dedup_basename, dedup_suffix, a) ==
    LET key == dedup_key(dedup_basename, dedup_suffix)
        shown == IF level = 0 \/ st.out = <<>> THEN 0
                 ELSE MinOf({level, st.out[Len(st.out)].level + 1})
        indent == IF a.no_indent THEN <<>> ELSE Spaces(shown)
        text == IF a.names THEN PathName(path_str) ELSE path_str
    IN  IF a.skip_duplicates /\ key \in st.seen
        THEN [st EXCEPT !.stats.duplicates = @ + 1]
        ELSE [seen |-> IF a.skip_duplicates THEN st.seen \cup {key} ELSE st.seen,
              stats |-> [st.stats EXCEPT ![kind] = @ + 1],
              out |-> Append(st.out, [line |-> indent \o text, level |-> level, kind |-> kind])]

\* emit on the emitter state st = [seen, stats, out]; returns the new state
emit(st, path_str, level, kind, dedup_basename, dedup_suffix, a) ==
    LET key == dedup_key(dedup_basename, dedup_suffix)
        indent == IF a.no_indent THEN <<>> ELSE Spaces(level)
        text == IF a.names THEN PathName(path_str) ELSE path_str
    IN  IF a.skip_duplicates /\ key \in st.seen
        THEN [st EXCEPT !.stats.duplicates = @ + 1]
        ELSE [seen |-> IF a.skip_duplicates THEN st.seen \cup {key} ELSE st.seen,
              stats |-> [st.stats EXCEPT ![kind] = @ + 1],
              out |-> Append(st.out, [line |-> indent \o text, level |-> level, kind |-> kind])]

suffix_to_kind(suffix) ==
    IF suffix = s_zdf \/ suffix = None THEN "source"
    ELSE IF suffix = s_master_z THEN "master_zero"
    ELSE IF suffix = s_master_d THEN "master_dark"
    ELSE IF StartsWith(suffix, s_master_f_) THEN "master_flat"
    ELSE "source"

\* for calib_path, level, kind, cb, cs in calib_files: emit(...)
RECURSIVE emit_all(_, _, _)
emit_all(st, nodes, a) ==
    IF nodes = <<>> THEN st
    ELSE LET n == Head(nodes)
         IN  emit_all(emit(st, n.path, n.level, n.kind, n.basename, n.suffix, a),
                      Tail(nodes), a)

---------------------------------------------------------------------------
(* process_files *)

NoSummary == [source |-> 0, master_zero |-> 0, master_dark |-> 0, master_flat |-> 0,
              raw_zero |-> 0, raw_dark |-> 0, raw_flat |-> 0, total_out |-> 0,
              duplicates |-> 0, shows_duplicates |-> FALSE, logged |-> FALSE]

\* the root directory check at the head of process_files
resolve_root ==
    /\ pc = "start"
    /\ IF args.dir # None
       THEN IF is_dir(args.dir)
            THEN root_path' = args.dir /\ pc' = "loop"
            ELSE root_path' = args.dir /\ pc' = "no_root"
       ELSE LET d == detect_root_schema
            IN  IF d[1] = None
                THEN root_path' = None /\ pc' = "no_root"
                ELSE root_path' = d[2] /\ pc' = "loop"
    /\ UNCHANGED <<fs, args, file_list, idx, seen, stats, out, calib_files, dbg, exc, summary>>
    /\ UNCHANGED siblings

\* the variables one loop iteration leaves behind
iter_result(st, next_pc, next_idx, next_calib_files, next_dbg, next_exc) ==
    /\ seen' = st.seen
    /\ stats' = st.stats
    /\ out' = st.out
    /\ pc' = next_pc
    /\ idx' = next_idx
    /\ calib_files' = next_calib_files
    /\ dbg' = next_dbg
    /\ exc' = next_exc

\* the end of an iteration whose walk gave r: an exception leaves
\* process_files, a returned list is emitted node by node
iter_walked(st1, r) ==
    IF r.exc # "none"
    THEN iter_result(st1, "crashed", idx, calib_files, r.log, r.exc)
    ELSE iter_result(emit_all(st1, r.files, args), pc, idx + 1, r.files, r.log, exc)

\* mutant: no 'if not basename' guard, the walk is called with None
iter_rooted_unguarded(file_path, basename, suffix, st1) ==
    IF basename = None
    THEN iter_result(st1, "crashed", idx, calib_files, <<>>, "TypeError")
    ELSE iter_walked(st1, find_calibration_files(0, basename, suffix, root_path, args))

\* the iteration after the root line was emitted or counted (emitter state st1)
iter_rooted(file_path, basename, suffix, st1) ==
    IF basename = None
    THEN iter_result(st1, pc, idx + 1, calib_files,
                     <<LogRec("Cannot extract basename", None, None, file_path)>>, exc)
    ELSE iter_walked(st1, find_calibration_files(0, basename, suffix, root_path, args))

\* the iteration for the stripped line file_path, which extract_basename parsed to bs
iter_line(file_path, bs, st0) ==
    IF file_path = <<>>
    THEN iter_result(st0, pc, idx + 1, calib_files, <<>>, exc)
    ELSE iter_rooted(file_path, bs[1], bs[2],
                     IF ~args.skip_source
                     THEN emit(st0, file_path, 0, suffix_to_kind(bs[2]), file_path, None, args)
                     ELSE [st0 EXCEPT !.stats.source = @ + 1])

iter_stripped(file_path) ==
    iter_line(file_path, extract_basename(file_path),
              [seen |-> seen, stats |-> stats, out |-> out])

\* one iteration of 'for file_path in file_list'
process_file ==
    /\ pc = "loop"
    /\ idx <= Len(file_list)
    /\ iter_stripped(strip(file_list[idx]))
    /\ UNCHANGED <<fs, args, file_list, root_path, summary>>
    /\ UNCHANGED siblings

\* the summary logged after the loop
log_summary ==
    /\ pc = "loop"
    /\ idx > Len(file_list)
    /\ pc' = "done"
    /\ summary' = [source |-> stats.source,
                   master_zero |-> stats.master_zero, master_dark |-> stats.master_dark,
                   master_flat |-> stats.master_flat,
                   raw_zero |-> stats.raw_zero, raw_dark |-> stats.raw_dark,
                   raw_flat |-> stats.raw_flat,
                   total_out |-> stats.master_zero + stats.master_dark + stats.master_flat
                                 + stats.raw_zero + stats.raw_dark + stats.raw_flat,
                   duplicates |-> stats.duplicates,
                   shows_duplicates |-> args.skip_duplicates,
                   logged |-> TRUE]
    /\ UNCHANGED <<fs, args, file_list, root_path, idx, seen, stats, out, calib_files, dbg, exc>>
    /\ UNCHANGED siblings

Next == resolve_root \/ process_file \/ log_summary

---------------------------------------------------------------------------
(* Inputs: file hierarchies, command lines and input lines *)

b_sci == <<"z","b","0","8","c","_","0","5","7","1","_","2","4","5","4","0">>
b_flat == <<"z","b","0","8","c","_","0","5","7","0","_","0","0","0","0","1">>
b_dark == <<"z","b","0","8","c","_","0","5","6","9","_","0","0","0","0","2">>
b_zero == <<"z","b","0","8","c","_","0","5","6","8","_","0","0","0","0","3">>
b_raw == <<"z","b","0","8","c","_","0","5","6","8","_","0","0","0","0","4">>
b_raw2 == <<"z","b","0","8","c","_","0","5","6","8","_","0","0","0","0","5">>

s_d_root == <<"/","d">>
s_zb08 == <<"z","b","0","8">>
s_flat_suffix == s_master_f_ \o <<"V">>

\* file names
n_sci_zdf == b_sci \o <<"_">> \o s_zdf \o s_dot_fits
n_sci_raw == b_sci \o s_dot_fits
n_flat == b_flat \o <<"_">> \o s_flat_suffix \o s_dot_fits
n_dark == b_dark \o <<"_">> \o s_master_d \o s_dot_fits
n_zero == b_zero \o <<"_">> \o s_master_z \o s_dot_fits
n_raw == b_raw \o s_dot_fits
n_raw_fz == b_raw2 \o s_dot_fz
n_foo == <<"f","o","o",".","f","i","t","s">>

\* the product directories of the storage root /d
d_sci == PathJoinAll(s_d_root, <<s_zb08, s_processed_ofp, s_science, <<"0","5","7","1">>, b_sci>>)
d_flat == PathJoinAll(s_d_root, <<s_zb08, s_processed_ofp, s_flats, <<"V">>, b_flat>>)
d_dark == PathJoinAll(s_d_root, <<s_zb08, s_processed_ofp, s_darks, b_dark>>)
d_zero == PathJoinAll(s_d_root, <<s_zb08, s_processed_ofp, s_zeros, b_zero>>)

ProductDirs == {d_sci, d_flat, d_dark, d_zero}

\* the product files a directory holds for its own node
OwnFiles(d) ==
    IF d = d_sci THEN <<n_sci_zdf, n_sci_raw>>
    ELSE IF d = d_flat THEN <<n_flat>>
    ELSE IF d = d_dark THEN <<n_dark>>
    ELSE <<n_zero>>

\* the single chain zdf -> master_flat -> master_dark -> master_zero -> raw_zero
ChainChild(d) ==
    IF d = d_sci THEN n_flat
    ELSE IF d = d_flat THEN n_dark
    ELSE IF d = d_dark THEN n_zero
    ELSE n_raw

ChainListing == [d \in ProductDirs |-> OwnFiles(d) \o <<ChainChild(d)>>]

Candidates == {n_flat, n_dark, n_zero, n_raw, n_raw_fz, n_foo}

\* most files a directory lists besides its own
MaxChildren == 2

SeqsNoRepeat(S, n) ==
    UNION {{q \in [1..k -> S] : \A x, y \in 1..k : x # y => q[x] # q[y]} : k \in 0..n}

Absent == <<>>

\* a directory is absent, or lists its own files and up to MaxChildren others
DirOptions(d) ==
    {Absent} \cup
    {OwnFiles(d) \o q :
        q \in SeqsNoRepeat({c \in Candidates : \A k \in 1..Len(OwnFiles(d)) : OwnFiles(d)[k] # c},
                           MaxChildren)}

\* the file hierarchy with the listings ls (Absent: the directory does not exist)
MkFs(ls) ==
    [d \in {s_d_root} \cup {x \in ProductDirs : ls[x] # Absent} |->
        IF d = s_d_root THEN <<>> ELSE ls[d]]

\* the chain with any one directory replaced
WalkTrees ==
    {MkFs([ChainListing EXCEPT ![d] = o]) : <<d, o>> \in
        UNION {{<<x, y>> : y \in DirOptions(x)} : x \in ProductDirs}}

ChainFs == MkFs(ChainListing)

\* two sibling chains end in the same master zero: flat -> zero and flat -> dark -> zero
DiamondFs == MkFs([ChainListing EXCEPT ![d_flat] = <<n_flat, n_dark, n_zero>>])

Kinds == {"raw_zero", "raw_dark", "raw_flat", "master_zero", "master_dark", "master_flat"}

MkArgs(policy, skip_source, skip_duplicates) ==
    [raw_zero |-> "raw_zero" \in policy, raw_dark |-> "raw_dark" \in policy,
     raw_flat |-> "raw_flat" \in policy, master_zero |-> "master_zero" \in policy,
     master_dark |-> "master_dark" \in policy, master_flat |-> "master_flat" \in policy,
     skip_source |-> skip_source, skip_duplicates |-> skip_duplicates,
     names |-> FALSE, no_indent |-> FALSE, dir |-> s_d_root]

\* input lines: a bare name, a full path as read from a pipe, a blank line,
\* a name outside the convention, an indented canonical path of the master
\* zero, and the master zero's name without extension
l_zdf_name == n_sci_zdf
l_zdf_path == PathJoin(d_sci, n_sci_zdf) \o <<"\n">>
l_blank == <<"\n">>
l_foo == n_foo
l_zero_path == <<" ">> \o PathJoin(d_zero, n_zero) \o <<"\n">>
l_zero_noext == b_zero \o <<"_">> \o s_master_z

Lines == {l_zdf_name, l_zdf_path, l_blank, l_foo, l_zero_path, l_zero_noext}

\* most input lines of a run
MaxLines == 2

RunPolicies == {{"master_zero"}, {"master_zero", "raw_zero"}, Kinds}

\* fitscollectjson before it has read anything
JsonIdle == [pc |-> "wait", dir |-> None, root_path |-> None, lines |-> <<>>, i |-> 1,
             observations |-> <<>>, has_current |-> FALSE, stack_len |-> 0,
             printed |-> <<>>]

\* fitscollect not run
SelIdle == [pc |-> "off"]

\* process_files before its first statement
InitLocals ==
    /\ pc = "start"
    /\ root_path = None
    /\ idx = 1
    /\ seen = {}
    /\ stats = InitStats
    /\ out = <<>>
    /\ calib_files = <<>>
    /\ dbg = <<>>
    /\ exc = "none"
    /\ summary = NoSummary

\* ocadb-downloader not run
DlIdle == [pc |-> "off"]

\* fitscollectparquet not run
PqIdle == [pc |-> "off"]

\* no separate call of find_processed_file_dir
LocIdle == [pc |-> "off"]

\* no separate call of ensure_oca_julian
ConvIdle == [pc |-> "off"]

InitRest ==
    /\ InitLocals
    /\ json = JsonIdle
    /\ sel = SelIdle
    /\ dl = DlIdle
    /\ pq = PqIdle
    /\ loc = LocIdle
    /\ conv = ConvIdle

\* batches: a few hierarchies and policies, every list of up to MaxLines lines
Init ==
    /\ fs \in {ChainFs, DiamondFs}
    /\ args \in {MkArgs(p, ss, sd) : p \in RunPolicies, ss \in BOOLEAN, sd \in BOOLEAN}
    /\ file_list \in UNION {[1..k -> Lines] : k \in 0..MaxLines}
    /\ InitRest

\* single walks: every policy, the chain with any one directory replaced
InitWalk ==
    /\ fs \in WalkTrees
    /\ args \in {MkArgs(p, FALSE, FALSE) : p \in SUBSET Kinds}
    /\ file_list \in {<<n_sci_zdf>>, <<n_sci_raw>>}
    /\ InitRest

Spec == Init /\ [][Next]_vars

SpecWalk == InitWalk /\ [][Next]_vars

---------------------------------------------------------------------------
(* Vocabulary of the properties *)

\* the inclusion policy of the command line
PolicyOf(a) == {k \in Kinds : a[k]}

Positions(q) == 1..Len(q)

\* the last loop iteration ran a walk to its end, or the run died in one
WalkEnded == (pc \in {"loop", "done"} /\ idx > 1) \/ pc = "crashed"

\* the node sequence the last walk yielded: a walk that raised yields nothing
Yielded == IF pc = "crashed" THEN <<>> ELSE calib_files

IsMasterSuffix(sfx) ==
    sfx = s_master_z \/ sfx = s_master_d \/ StartsWith(sfx, s_master_f_)

\* the kind of a child with suffix f_suffix found in the directory of a node
\* with suffix parent_suffix ("none": no calibration kind)
ChildKind(parent_suffix, f_suffix) ==
    IF f_suffix = None
    THEN IF parent_suffix = s_master_z THEN "raw_zero"
         ELSE IF parent_suffix = s_master_d THEN "raw_dark"
         ELSE IF StartsWith(parent_suffix, s_master_f_) THEN "raw_flat"
         ELSE "none"
    ELSE IF f_suffix = s_master_z THEN "master_zero"
    ELSE IF f_suffix = s_master_d THEN "master_dark"
    ELSE IF StartsWith(f_suffix, s_master_f_) THEN "master_flat"
    ELSE "none"

\* the directories the last walk expanded
Expanded == {k \in Positions(dbg) : dbg[k].msg = "Processing"}

\* the recognised children, other than the node itself, that the directory
\* expanded at log position k lists
ChildrenAt(k) ==
    {c \in {extract_basename(glob_fits_fz(dbg[k].at)[j]) : j \in Positions(glob_fits_fz(dbg[k].at))} :
        c[1] # None /\ c # <<dbg[k].basename, dbg[k].suffix>>}

---------------------------------------------------------------------------
(* C1 *)

\* C1: the walk yields a node of kind K only if K is requested, and every
\* child of a requested kind found in a directory the walk expanded is yielded.
C1_RequestedOnlyAndAll ==
    WalkEnded =>
        /\ \A n \in Positions(Yielded) : Yielded[n].kind \in PolicyOf(args)
        /\ \A k \in Expanded : \A c \in ChildrenAt(k) :
              ChildKind(dbg[k].suffix, c[2]) \in PolicyOf(args) =>
                  \E n \in Positions(Yielded) :
                      /\ Yielded[n].basename = c[1]
                      /\ Yielded[n].suffix = c[2]
                      /\ Yielded[n].kind = ChildKind(dbg[k].suffix, c[2])

---------------------------------------------------------------------------
(* C2 *)

\* log positions at which the walk examined a child with a suffix
SuffixedChecks ==
    {k \in Positions(dbg) : dbg[k].msg = "Checking file" /\ dbg[k].suffix # None}

RawChecks ==
    {k \in Positions(dbg) : dbg[k].msg = "Checking file" /\ dbg[k].suffix = None}

\* the walk called itself for the child examined at log position k: the
\* child's directory is the next one processed, or the call was the one
\* the interpreter's recursion limit refused
RecursedInto(k) ==
    \/ /\ k < Len(dbg)
       /\ dbg[k + 1].msg = "Processing"
       /\ dbg[k + 1].basename = dbg[k].basename
       /\ dbg[k + 1].suffix = dbg[k].suffix
    \/ /\ k = Len(dbg)
       /\ exc = "RecursionError"

\* the kinds whose request makes the walker enter a child with suffix sfx
EnterFor(sfx) ==
    IF sfx = s_master_z THEN {"raw_zero"}
    ELSE IF sfx = s_master_d THEN {"master_zero", "raw_zero", "raw_dark"}
    ELSE IF StartsWith(sfx, s_master_f_)
         THEN {"master_dark", "master_zero", "raw_zero", "raw_dark", "raw_flat"}
    ELSE {}

\* C2: a master_zero child is recursed into iff raw_zero is requested, a
\* master_dark child iff one of master_zero, raw_zero, raw_dark is, a
\* master_flat child iff one of the five kinds below it is; raw children are
\* never recursed into; whether the child itself is requested plays no part.
C2_RecursionTable ==
    /\ \A k \in SuffixedChecks :
          RecursedInto(k) <=> (EnterFor(dbg[k].suffix) \cap PolicyOf(args) # {})
    /\ \A k \in RawChecks :
          ~(k < Len(dbg) /\ dbg[k + 1].msg = "Processing")

\* a master dark was passed through without being yielded, and a master
\* zero was yielded without being entered
C2_Witness ==
    /\ pc = "done"
    /\ PolicyOf(args) = {"master_zero"}
    /\ \E k \in SuffixedChecks : dbg[k].suffix = s_master_d /\ RecursedInto(k)
    /\ \E k \in SuffixedChecks : dbg[k].suffix = s_master_z /\ ~RecursedInto(k)
    /\ \E n \in Positions(calib_files) : calib_files[n].kind = "master_zero"

---------------------------------------------------------------------------
(* C3, C4 *)

\* the directories the last walk expanded
TraversedDirs == {dbg[k].at : k \in Expanded}

ChainRun(policy) ==
    /\ fs = ChainFs
    /\ file_list = <<n_sci_zdf>>
    /\ PolicyOf(args) = policy
    /\ WalkEnded

MasterZeroAt3 ==
    [path |-> PathJoin(d_zero, n_zero), level |-> 3, kind |-> "master_zero",
     basename |-> b_zero, suffix |-> s_master_z]

RawZeroAt4 ==
    [path |-> PathJoinAll(s_d_root, <<s_zb08, s_raw, <<"0","5","6","8">>, b_raw \o s_dot_fits>>),
     level |-> 4, kind |-> "raw_zero", basename |-> b_raw, suffix |-> None]

\* C3: on the single chain, policy {master_zero} yields exactly the master
\* zero at depth 3; master flat and master dark are traversed, not yielded.
C3_MasterZeroOnly ==
    ChainRun({"master_zero"}) =>
        /\ exc = "none"
        /\ calib_files = <<MasterZeroAt3>>
        /\ TraversedDirs = {d_sci, d_flat, d_dark}

C3_Witness ==
    /\ ChainRun({"master_zero"})
    /\ pc = "done"
    /\ Len(out) = 2
    /\ out[2].level = 3

\* C4: on the single chain, policy {raw_zero} yields exactly the raw zero at
\* depth 4; master flat, master dark and master zero are descended through.
C4_RawZeroOnly ==
    ChainRun({"raw_zero"}) =>
        /\ exc = "none"
        /\ calib_files = <<RawZeroAt4>>
        /\ TraversedDirs = {d_sci, d_flat, d_dark, d_zero}

C4_Witness ==
    /\ ChainRun({"raw_zero"})
    /\ pc = "done"
    /\ Len(out) = 2
    /\ out[2].kind = "raw_zero"

---------------------------------------------------------------------------
(* C5 *)

\* the nodes one dependency hop below node x = <<basename, suffix>>: the
\* recognised files, other than x's own, listed in x's directory
HopsFrom(x) ==
    LET d == find_processed_file_dir(x[1], x[2], root_path)
    IN  IF d = None THEN {}
        ELSE {c \in {extract_basename(glob_fits_fz(d)[j]) : j \in Positions(glob_fits_fz(d))} :
                 c[1] # None /\ c # x}

\* the nodes exactly k hops below the root r; only the root and master
\* products have dependents
RECURSIVE NodesAt(_, _)
NodesAt(r, k) ==
    IF k = 0 THEN {r}
    ELSE UNION {HopsFrom(x) : x \in {y \in NodesAt(r, k - 1) :
                                        k = 1 \/ (y[2] # None /\ IsMasterSuffix(y[2]))}}

\* the root of the last loop iteration
LastRoot == extract_basename(strip(file_list[idx - 1]))

\* C5: the depth recorded on a yielded node is the number of dependency hops
\* from the root to it, whichever of its ancestors were yielded.
C5_DepthIsHops ==
    (pc \in {"loop", "done"} /\ idx > 1 /\ LastRoot[1] # None) =>
        \A n \in Positions(calib_files) :
            /\ calib_files[n].level >= 1
            /\ <<calib_files[n].basename, calib_files[n].suffix>>
                   \in NodesAt(LastRoot, calib_files[n].level)

\* a node at depth 4 was yielded although its parent and grandparent were not
C5_Witness ==
    /\ pc = "done"
    /\ fs = ChainFs
    /\ Len(calib_files) = 2
    /\ calib_files[1].level = 1
    /\ calib_files[2].level = 4

---------------------------------------------------------------------------
(* C6, C7 *)

\* C6: the recursion of find_calibration_files always ends by returning,
\* also when directories list each other.
C6_WalkReturns == exc # "RecursionError"

\* C7: a listed file outside the naming convention is skipped: the walk
\* raises nothing and the batch goes on to its summary.
C7_UnrecognisedSkipped == exc # "TypeError"

---------------------------------------------------------------------------
(* C8 *)

\* the input line the k-th loop iteration works on
LineAt(k) == strip(file_list[k])

\* the next loop iteration takes a non-blank line outside the naming convention
MalformedNext ==
    /\ pc = "loop"
    /\ idx <= Len(file_list)
    /\ LineAt(idx) # <<>>
    /\ extract_basename(LineAt(idx))[1] = None

\* the root line emit prints for the stripped input line ln
RootLine(ln) ==
    [line |-> IF args.names THEN PathName(ln) ELSE ln, level |-> 0, kind |-> "source"]

---------------------------------------------------------------------------
(* C9, C10 *)

\* the file <<basename, suffix>> an output line names
FileOfLine(k) == extract_basename(strip(out[k].line))

\* the node sequence the walk of the j-th input line returned
WalkOf(j) ==
    IF LineAt(j) = <<>> \/ extract_basename(LineAt(j))[1] = None
    THEN <<>>
    ELSE find_calibration_files(0, extract_basename(LineAt(j))[1],
                                extract_basename(LineAt(j))[2], root_path, args).files

\* how often the walk of the j-th input line reached file x
ReachedIn(j, x) ==
    Cardinality({n \in Positions(WalkOf(j)) : <<WalkOf(j)[n].basename, WalkOf(j)[n].suffix>> = x})

\* how often the walks of the first j input lines reached file x
RECURSIVE ReachedUpTo(_, _)
ReachedUpTo(j, x) == IF j = 0 THEN 0 ELSE ReachedUpTo(j - 1, x) + ReachedIn(j, x)

\* the files the walks of the first j input lines reached
RECURSIVE FilesUpTo(_)
FilesUpTo(j) ==
    IF j = 0 THEN {}
    ELSE FilesUpTo(j - 1)
         \cup {<<WalkOf(j)[n].basename, WalkOf(j)[n].suffix>> : n \in Positions(WalkOf(j))}

\* the calibration lines printed for file x
CalibLinesOf(x) == {k \in Positions(out) : out[k].level >= 1 /\ FileOfLine(k) = x}

\* C9: a calibration file reached through n >= 2 chains is emitted exactly
\* once with deduplication and exactly n times without.
C9_OncePerRunOrPerChain ==
    pc \in {"loop", "done"} =>
        \A x \in FilesUpTo(idx - 1) :
            ReachedUpTo(idx - 1, x) >= 2 =>
                Cardinality(CalibLinesOf(x)) =
                    IF args.skip_duplicates THEN 1 ELSE ReachedUpTo(idx - 1, x)

\* C10: with deduplication no two output lines, root lines included, name
\* the same (basename, suffix) file.
C10_NoFileTwice ==
    args.skip_duplicates =>
        \A j, k \in Positions(out) :
            (j # k /\ FileOfLine(j)[1] # None) => FileOfLine(j) # FileOfLine(k)

---------------------------------------------------------------------------
(* C11 *)

\* batches under every output format: --names and --no-indent on and off
InitFormat ==
    /\ fs \in {ChainFs, DiamondFs}
    /\ args \in {[MkArgs(p, FALSE, sd) EXCEPT !.names = nm, !.no_indent = ni] :
                    p \in RunPolicies, sd \in BOOLEAN, nm \in BOOLEAN, ni \in BOOLEAN}
    /\ file_list \in UNION {[1..k -> {l_zdf_name, l_zdf_path, l_zero_path}] : k \in 0..MaxLines}
    /\ InitRest

SpecFormat == InitFormat /\ [][Next]_vars

\* the number of spaces a printed line starts with
RECURSIVE LeadingSpaces(_)
LeadingSpaces(s) ==
    IF s # <<>> /\ Head(s) = " " THEN 1 + LeadingSpaces(Tail(s)) ELSE 0

\* C11: every printed line starts with exactly one space per unit of the depth
\* its node was discovered at, and with none when indentation is off, also
\* below ancestors that were not printed.
C11_IndentIsDepth ==
    \A k \in Positions(out) :
        LeadingSpaces(out[k].line) = IF args.no_indent THEN 0 ELSE out[k].level

\* a master zero found three hops down is printed with three spaces directly
\* below its root line, no ancestor between them being printed
C11_Witness ==
    /\ ~args.no_indent
    /\ \E k \in Positions(out) :
          /\ k > 1
          /\ out[k - 1].level = 0
          /\ out[k].level = 3
          /\ LeadingSpaces(out[k].line) = 3

---------------------------------------------------------------------------
(* fitscollectjson: the JSON structuring stage fed by the printed lines *)

s_master_f == <<"m","a","s","t","e","r","_","f">>

\* the groups of re.match(r'(?P<telescope>\w{4})(?P<instr>.)_(?P<night>\d{4})
\* _(?P<count>\d{5})(?:_(?P<suffix>.*))?\.fits', name); ok FALSE when no match
extract_metadata(name) ==
    LET n == Len(name)
        head_ok == /\ n >= 16
                   /\ \A k \in 1..4 : name[k] \in WordChars
                   /\ name[5] # "\n"
                   /\ name[6] = "_"
                   /\ \A k \in 7..10 : name[k] \in Digits
                   /\ name[11] = "_"
                   /\ \A k \in 12..16 : name[k] \in Digits
        \* the greedy .* ends before the last ".fits" it can reach on its line
        ends == {e \in 18..n : /\ HasAt(name, e, s_dot_fits)
                               /\ \A k \in 18..(e - 1) : name[k] # "\n"}
        with_suffix == n >= 18 /\ name[17] = "_" /\ ends # {}
        no_match == [ok |-> FALSE, telescope |-> None, instr |-> None, night |-> None,
                     count |-> None, suffix |-> None]
        matched(sfx) == [ok |-> TRUE, telescope |-> SubSeq(name, 1, 4),
                         instr |-> SubSeq(name, 5, 5), night |-> SubSeq(name, 7, 10),
                         count |-> SubSeq(name, 12, 16), suffix |-> sfx]
    IN  IF ~head_ok THEN no_match
        ELSE IF with_suffix THEN matched(SubSeq(name, 18, MaxOf(ends) - 1))
        ELSE IF HasAt(name, 17, s_dot_fits) THEN matched(None)
        ELSE no_match

\* reconstruct_path on the groups md that extract_metadata found in name
reconstruct_from(md, name, rp) ==
    LET basename == md.telescope \o md.instr \o <<"_">> \o md.night \o <<"_">> \o md.count
    IN  IF ~md.ok THEN name
        ELSE IF md.suffix = None
             THEN PathJoinAll(rp, <<md.telescope, s_raw, md.night, name>>)
        ELSE IF md.suffix = s_zdf
             THEN PathJoinAll(rp, <<md.telescope, s_processed_ofp, s_science, md.night,
                                    basename, name>>)
        ELSE IF StartsWith(md.suffix, s_master_z)
             THEN PathJoinAll(rp, <<md.telescope, s_processed_ofp, s_zeros, basename, name>>)
        ELSE IF StartsWith(md.suffix, s_master_d)
             THEN PathJoinAll(rp, <<md.telescope, s_processed_ofp, s_darks, basename, name>>)
        ELSE IF StartsWith(md.suffix, s_master_f)
             THEN PathJoinAll(rp, <<md.telescope, s_processed_ofp, s_flats, name>>)
        ELSE PathJoinAll(rp, <<md.telescope, s_processed_ofp, s_science, md.night,
                               basename, name>>)

reconstruct_path(name, rp) == reconstruct_from(extract_metadata(name), name, rp)

\* Path(name).stem: the name without its last extension
PathStem(name) ==
    LET dots == {k \in 2..Len(name) : name[k] = "."}
    IN  IF dots = {} \/ MaxOf(dots) = Len(name) THEN name
        ELSE SubSeq(name, 1, MaxOf(dots) - 1)

\* line.rstrip('\n')
rstrip_newlines(line) ==
    LET keep == {k \in 1..Len(line) : line[k] # "\n"}
    IN  IF keep = {} THEN <<>> ELSE SubSeq(line, 1, MaxOf(keep))

\* process_files of fitscollectjson up to the call of parse_indented_list: the
\* standard input is what fitscollectcalib printed, one line per print call
json_read ==
    /\ json.pc = "wait"
    /\ pc \in {"done", "crashed", "no_root"}
    /\ \E d \in {None, s_d_root} :
          json' = [json EXCEPT
                     !.pc = "parse",
                     !.dir = d,
                     !.root_path = IF d # None THEN d ELSE detect_root_schema[2],
                     !.lines = [k \in Positions(out) |-> out[k].line \o <<"\n">>]]
    /\ UNCHANGED json_others

\* the loop body of parse_indented_list for the line text with indent leading
\* spaces; indent_stack is [current_obs['files']] once an observation exists
parse_line(indent, file_path) ==
    LET full_path == IF json.root_path # None /\ ~StartsWith(file_path, <<"/">>)
                     THEN reconstruct_path(PathName(file_path), json.root_path)
                     ELSE file_path
        name == PathName(file_path)
        last == Len(json.observations)
    IN  IF indent = 0
        THEN [json EXCEPT
                !.observations = Append(@, [observation |-> PathStem(name), name |-> name,
                                            path |-> full_path, files |-> <<>>]),
                !.has_current = TRUE,
                !.stack_len = 1,
                !.i = @ + 1]
        ELSE IF json.has_current /\ indent <= json.stack_len
        THEN [json EXCEPT
                !.observations[last].files = Append(@, [name |-> name, path |-> full_path]),
                !.i = @ + 1]
        ELSE [json EXCEPT !.i = @ + 1]

\* one iteration of 'for line in lines' of parse_indented_list
json_line ==
    /\ json.pc = "parse"
    /\ json.i <= Len(json.lines)
    /\ json' = IF strip(rstrip_newlines(json.lines[json.i])) = <<>>
               THEN [json EXCEPT !.i = @ + 1]
               ELSE parse_line(LeadingSpaces(rstrip_newlines(json.lines[json.i])),
                               strip(rstrip_newlines(json.lines[json.i])))
    /\ UNCHANGED json_others

\* print(json.dumps(observations, indent=2))
json_dump ==
    /\ json.pc = "parse"
    /\ json.i > Len(json.lines)
    /\ json' = [json EXCEPT !.pc = "done", !.printed = json.observations]
    /\ UNCHANGED json_others

NextPipe == Next \/ json_read \/ json_line \/ json_dump

\* fitscollectcalib ... | fitscollectjson
SpecPipe == InitFormat /\ [][NextPipe]_vars

---------------------------------------------------------------------------
(* C12 *)

\* the non-blank lines fitscollectjson was given, by position
DataLines == {k \in Positions(json.lines) : strip(json.lines[k]) # <<>>}

DepthOfLine(k) == LeadingSpaces(json.lines[k])

\* the number of entries of the printed structure: observations and their files
RECURSIVE EntryCount(_)
EntryCount(obs) ==
    IF obs = <<>> THEN 0 ELSE 1 + Len(Head(obs).files) + EntryCount(Tail(obs))

\* the observation the depth-0 line k must have become
ObservationOf(k) ==
    json.printed[Cardinality({j \in DataLines : j <= k /\ DepthOfLine(j) = 0})]

\* the nearest line of depth d before line k, 0 when there is none
NearestBefore(k, d) ==
    LET c == {j \in DataLines : j < k /\ DepthOfLine(j) = d}
    IN  IF c = {} THEN 0 ELSE MaxOf(c)

\* the entries nested under the entry made for line k
NestedUnder(k) ==
    IF k = 0 THEN <<>>
    ELSE IF DepthOfLine(k) = 0 THEN ObservationOf(k).files
    ELSE <<>>

\* C12: every non-blank input line is exactly one entry of the result, a
\* depth-0 line an observation, a line of depth d >= 1 an entry nested under
\* the nearest preceding line of depth d - 1; no line is dropped.
C12_SameTree ==
    json.pc = "done" =>
        /\ EntryCount(json.printed) = Cardinality(DataLines)
        /\ \A k \in DataLines :
              IF DepthOfLine(k) = 0
              THEN ObservationOf(k).name = PathName(strip(json.lines[k]))
              ELSE \E n \in Positions(NestedUnder(NearestBefore(k, DepthOfLine(k) - 1))) :
                      NestedUnder(NearestBefore(k, DepthOfLine(k) - 1))[n].name
                          = PathName(strip(json.lines[k]))

---------------------------------------------------------------------------
(* fitscollect: the bulk selector *)

s_targets == <<"t","a","r","g","e","t","s">>
s_light_curve == <<"l","i","g","h","t","-","c","u","r","v","e">>
s_json == <<"j","s","o","n">>
s_star == <<"*">>
\* the file part of glob_pattern after the telescope
s_name_pattern == <<"?","_","?","?","?","?","_","?","?","?","?","?",".","j","s","o","n">>

\* the shell-style match pathlib's glob applies to one path component
RECURSIVE fnmatch(_, _)
fnmatch(name, pat) ==
    IF pat = <<>> THEN name = <<>>
    ELSE IF Head(pat) = "*"
         THEN fnmatch(name, Tail(pat)) \/ (name # <<>> /\ fnmatch(Tail(name), pat))
    ELSE IF Head(pat) = "?"
         THEN name # <<>> /\ fnmatch(Tail(name), Tail(pat))
    ELSE name # <<>> /\ Head(name) = Head(pat) /\ fnmatch(Tail(name), Tail(pat))

\* the value of a decimal digit
DigitValue(c) == CHOOSE v \in 0..9 : <<"0","1","2","3","4","5","6","7","8","9">>[v + 1] = c

\* the number a string of digits denotes
RECURSIVE DigitsValue(_)
DigitsValue(ds) ==
    IF ds = <<>> THEN 0
    ELSE 10 * DigitsValue(SubSeq(ds, 1, Len(ds) - 1)) + DigitValue(ds[Len(ds)])

AllDigits(ds) == ds # <<>> /\ \A k \in 1..Len(ds) : ds[k] \in Digits

\* int(dt): surrounding whitespace, an optional sign, decimal digits
parse_int(dt) ==
    LET t == strip(dt)
        signed == t # <<>> /\ Head(t) \in {"-", "+"}
        ds == IF signed THEN Tail(t) ELSE t
    IN  IF ~AllDigits(ds) THEN [ok |-> FALSE, value |-> 0]
        ELSE [ok |-> TRUE,
              value |-> IF signed /\ Head(t) = "-" THEN 0 - DigitsValue(ds) ELSE DigitsValue(ds)]

\* the ordinal of 2023-02-23
oca_epoch_ordinal == 738574

IsLeap(y) == (y % 4 = 0 /\ y % 100 # 0) \/ y % 400 = 0

DaysInMonth(y, mo) ==
    IF mo = 2 THEN (IF IsLeap(y) THEN 29 ELSE 28)
    ELSE IF mo \in {4, 6, 9, 11} THEN 30 ELSE 31

RECURSIVE DaysBeforeMonth(_, _)
DaysBeforeMonth(y, mo) ==
    IF mo = 1 THEN 0 ELSE DaysBeforeMonth(y, mo - 1) + DaysInMonth(y, mo - 1)

\* datetime.date(y, mo, d).toordinal()
toordinal(y, mo, d) ==
    (y - 1) * 365 + ((y - 1) \div 4) - ((y - 1) \div 100) + ((y - 1) \div 400)
    + DaysBeforeMonth(y, mo) + d

\* mutant: the reference date is night 1
ocm_julian_date_from_one(y, mo, d) == toordinal(y, mo, d) - oca_epoch_ordinal + 1

ocm_julian_date(y, mo, d) == toordinal(y, mo, d) - oca_epoch_ordinal

\* datetime.date.fromisoformat(dt) for the form YYYY-MM-DD
fromisoformat(dt) ==
    LET shaped == /\ Len(dt) = 10
                  /\ dt[5] = "-" /\ dt[8] = "-"
                  /\ \A k \in {1, 2, 3, 4, 6, 7, 9, 10} : dt[k] \in Digits
        y == DigitsValue(SubSeq(dt, 1, 4))
        mo == DigitsValue(SubSeq(dt, 6, 7))
        d == DigitsValue(SubSeq(dt, 9, 10))
    IN  IF shaped /\ y >= 1 /\ mo \in 1..12 /\ d >= 1 /\ d <= DaysInMonth(y, mo)
        THEN [ok |-> TRUE, y |-> y, mo |-> mo, d |-> d]
        ELSE [ok |-> FALSE, y |-> 0, mo |-> 0, d |-> 0]

\* ensure_oca_julian: ok FALSE stands for the ValueError it raises
ensure_oca_julian(dt) ==
    IF parse_int(dt).ok THEN parse_int(dt)
    ELSE IF fromisoformat(dt).ok
         THEN [ok |-> TRUE,
               value |-> ocm_julian_date(fromisoformat(dt).y, fromisoformat(dt).mo,
                                         fromisoformat(dt).d)]
    ELSE [ok |-> FALSE, value |-> 0]

\* the last night number of four digits
max_night == 9999

\* the return code of main on an error
ret_error == -1

\* main's root directory resolution: <<root_path, found>>
sel_root_path(dir) ==
    IF dir # None THEN <<dir, is_dir(dir)>>
    ELSE IF detect_root_schema[1] # None THEN <<detect_root_schema[2], TRUE>>
    ELSE <<None, FALSE>>

\* the limits 'if start_date < 0', 'if start_date > 9999' put on a bound
clamp_night(n) == IF n < 0 THEN 0 ELSE IF n > max_night THEN max_night ELSE n

\* main's date handling: [ret, start_date, end_date]; ret is "go" when main goes on
sel_date_range(date) ==
    IF date = None THEN [ret |-> "go", start_date |-> 0, end_date |-> max_night]
    ELSE IF Len(date) \notin {1, 2}
         THEN [ret |-> "error", start_date |-> 0, end_date |-> 0]
    ELSE IF ~ensure_oca_julian(date[1]).ok \/ ~ensure_oca_julian(date[Len(date)]).ok
         THEN [ret |-> "error", start_date |-> 0, end_date |-> 0]
    ELSE IF clamp_night(ensure_oca_julian(date[1]).value)
              > clamp_night(ensure_oca_julian(date[Len(date)]).value)
         THEN [ret |-> "empty",
               start_date |-> clamp_night(ensure_oca_julian(date[1]).value),
               end_date |-> clamp_night(ensure_oca_julian(date[Len(date)]).value)]
    ELSE [ret |-> "go",
          start_date |-> clamp_night(ensure_oca_julian(date[1]).value),
          end_date |-> clamp_night(ensure_oca_julian(date[Len(date)]).value)]

\* the components of glob_pattern
glob_pattern(a) ==
    <<a.telescope, s_processed_ofp, s_targets, a.object, a.filter, s_light_curve,
      a.telescope \o s_name_pattern>>

\* directory d lies below rp along the first six components of the pattern pat
dir_matches(d, rp, pat) ==
    /\ StartsWith(d, rp \o <<"/">>)
    /\ Len(path_parts(d)) = Len(path_parts(rp)) + 6
    /\ \A k \in 1..6 : fnmatch(path_parts(d)[Len(path_parts(rp)) + k], pat[k])

\* root_path.glob(glob_pattern), as the set of paths found
sel_glob(rp, a) ==
    {PathJoin(d, fs[d][k]) : <<d, k>> \in
        {x \in UNION {{<<dd, kk>> : kk \in 1..Len(fs[dd])} : dd \in DOMAIN fs} :
            /\ dir_matches(x[1], rp, glob_pattern(a))
            /\ fnmatch(fs[x[1]][x[2]], glob_pattern(a)[7])}}

\* Path.exists() of a file
file_exists(p) ==
    LET cut == Len(p) - Len(PathName(p)) - 1
    IN  cut >= 1 /\ SubSeq(p, 1, cut) \in DOMAIN fs
        /\ \E k \in 1..Len(fs[SubSeq(p, 1, cut)]) : fs[SubSeq(p, 1, cut)][k] = PathName(p)

\* the groups of re.match(r'(?P<telescope>\w{4})(?P<instr>.)_(?P<night>\d{4})
\* _(?P<count>\d{5}).json', name); ok FALSE when m is None
re_match_json(name) ==
    IF /\ Len(name) >= 21
       /\ \A k \in 1..4 : name[k] \in WordChars
       /\ name[5] # "\n"
       /\ name[6] = "_"
       /\ \A k \in 7..10 : name[k] \in Digits
       /\ name[11] = "_"
       /\ \A k \in 12..16 : name[k] \in Digits
       /\ name[17] # "\n"
       /\ HasAt(name, 18, s_json)
    THEN [ok |-> TRUE, telescope |-> SubSeq(name, 1, 4), instr |-> SubSeq(name, 5, 5),
          night |-> SubSeq(name, 7, 10)]
    ELSE [ok |-> FALSE, telescope |-> None, instr |-> None, night |-> None]

\* what print_file writes for one file
print_file(path, file_class, a) ==
    IF a.json
    THEN <<[class |-> "json", text |-> <<"{">>],
           [class |-> file_class, text |-> path],
           [class |-> "json", text |-> <<"}">>]>>
    ELSE <<[class |-> file_class, text |-> IF a.name THEN PathName(path) ELSE path]>>

\* the lines process_path writes for the raw file of an accepted observation
raw_lines(rp, md, basename, a) ==
    LET fits_path == PathJoinAll(rp, <<md.telescope, s_raw, md.night, basename \o s_dot_fits>>)
    IN  IF a.raw /\ ~(a.check /\ ~file_exists(fits_path))
        THEN print_file(fits_path, "raw", a) ELSE <<>>

\* the lines process_path writes for the ZDF file of an accepted observation
zdf_lines(rp, md, basename, a) ==
    LET fits_path == PathJoinAll(rp, <<md.telescope, s_processed_ofp, s_science, md.night,
                                       basename, basename \o <<"_">> \o s_zdf \o s_dot_fits>>)
    IN  IF ~a.exclude_zdf /\ ~(a.check /\ ~file_exists(fits_path))
        THEN print_file(fits_path, "zdf", a) ELSE <<>>

\* process_path on the groups md of the path's name: [accepted, lines]
process_path_md(rp, path, md, a, start_date, end_date) ==
    IF ~md.ok THEN [accepted |-> FALSE, lines |-> <<>>]
    ELSE IF DigitsValue(md.night) < start_date \/ DigitsValue(md.night) > end_date
         THEN [accepted |-> FALSE, lines |-> <<>>]
    ELSE [accepted |-> TRUE,
          lines |-> (IF a.json THEN <<[class |-> "json", text |-> <<"{">>],
                                      [class |-> "json", text |-> <<"[">>]>> ELSE <<>>)
                    \o raw_lines(rp, md, PathStem(PathName(path)), a)
                    \o zdf_lines(rp, md, PathStem(PathName(path)), a)
                    \o (IF a.json THEN <<[class |-> "json", text |-> <<"]">>],
                                         [class |-> "json", text |-> <<"}">>]>> ELSE <<>>)]

process_path(rp, path, a, start_date, end_date) ==
    process_path_md(rp, path, re_match_json(PathName(path)), a, start_date, end_date)

\* main up to the root directory check
sel_root ==
    /\ sel.pc = "start"
    /\ sel' = IF sel_root_path(sel.args.dir)[2]
              THEN [sel EXCEPT !.pc = "dates", !.root_path = sel_root_path(sel.args.dir)[1]]
              ELSE [sel EXCEPT !.pc = "exited", !.ret = ret_error]
    /\ UNCHANGED <<fs, sel_others>>

\* main from the date handling to the glob call
sel_dates ==
    /\ sel.pc = "dates"
    /\ sel' = IF sel_date_range(sel.args.date).ret = "error"
              THEN [sel EXCEPT !.pc = "exited", !.ret = ret_error]
              ELSE IF sel_date_range(sel.args.date).ret = "empty"
              THEN [sel EXCEPT !.pc = "exited", !.ret = 0,
                               !.start_date = sel_date_range(sel.args.date).start_date,
                               !.end_date = sel_date_range(sel.args.date).end_date]
              ELSE [sel EXCEPT !.pc = "scan",
                               !.start_date = sel_date_range(sel.args.date).start_date,
                               !.end_date = sel_date_range(sel.args.date).end_date,
                               !.todo = sel_glob(sel.root_path, sel.args),
                               !.printed = IF sel.args.json
                                           THEN <<[class |-> "json", text |-> <<"[">>]>>
                                           ELSE <<>>]
    /\ UNCHANGED <<fs, sel_others>>

\* the state after the loop body ran on path with process_path's result r
sel_after(path, r) ==
    [sel EXCEPT !.todo = @ \ {path},
                !.printed = @ \o r.lines,
                !.count = IF r.accepted THEN @ + 1 ELSE @,
                !.nigts = IF r.accepted THEN @ \cup {re_match_json(PathName(path)).night}
                          ELSE @]

\* one iteration of 'for path in root_path.glob(glob_pattern)', in any order
sel_path ==
    /\ sel.pc = "scan"
    /\ \E path \in sel.todo :
          sel' = sel_after(path, process_path(sel.root_path, path, sel.args,
                                              sel.start_date, sel.end_date))
    /\ UNCHANGED <<fs, sel_others>>

\* main after the loop
sel_end ==
    /\ sel.pc = "scan"
    /\ sel.todo = {}
    /\ sel' = [sel EXCEPT !.pc = "exited", !.ret = 0,
                          !.printed = IF sel.args.json
                                      THEN @ \o <<[class |-> "json", text |-> <<"]">>]>>
                                      ELSE @]
    /\ UNCHANGED <<fs, sel_others>>

NextSelect == sel_root \/ sel_dates \/ sel_path \/ sel_end

---------------------------------------------------------------------------
(* Inputs of the bulk selector *)

s_ngc300 == <<"n","g","c","3","0","0">>
s_x_root == <<"/","x">>
b_night0 == <<"z","b","0","8","c","_","0","0","0","0","_","0","0","0","0","1">>
b_night9999 == <<"z","b","0","8","c","_","9","9","9","9","_","0","0","0","0","2">>
b_badnight == <<"z","b","0","8","c","_","0","5","x","1","_","0","0","0","0","3">>
n_notes == <<"n","o","t","e","s",".","t","x","t">>

d_light_curve == PathJoinAll(s_d_root, <<s_zb08, s_processed_ofp, s_targets, s_ngc300,
                                         <<"V">>, s_light_curve>>)
d_raw_night == PathJoinAll(s_d_root, <<s_zb08, s_raw, <<"0","5","7","1">>>>)

\* the chain hierarchy with one target's light-curve directory and one raw night
SelFs ==
    [d \in DOMAIN ChainFs \cup {d_light_curve, d_raw_night} |->
        IF d = d_light_curve
        THEN <<b_sci \o <<".">> \o s_json, b_night0 \o <<".">> \o s_json,
               b_night9999 \o <<".">> \o s_json, b_badnight \o <<".">> \o s_json, n_notes>>
        ELSE IF d = d_raw_night THEN <<n_sci_raw>>
        ELSE ChainFs[d]]

\* --date values: night numbers inside and outside 0..9999, an ISO date, junk
t_0 == <<"0">>
t_571 == <<"0","5","7","1">>
t_600 == <<"6","0","0">>
t_9999 == <<"9","9","9","9">>
t_10000 == <<"1","0","0","0","0">>
t_10001 == <<"1","0","0","0","1">>
t_minus1 == <<"-","1">>
t_minus2 == <<"-","2">>
t_iso == <<"2","0","2","4","-","0","9","-","1","6">>
t_junk == <<"j","u","n","k">>

DateArgs ==
    {None, <<t_571>>, <<t_iso>>, <<t_junk>>, <<t_0, t_9999>>, <<t_iso, t_600>>,
     <<t_600, t_571>>, <<t_600, t_iso>>, <<t_9999, t_0>>, <<t_minus1, t_minus2>>,
     <<t_10001, t_10000>>, <<t_10000, t_minus1>>, <<t_0, t_571, t_600>>}

\* output formats: path, --name, --json
SelFormats == {<<FALSE, FALSE>>, <<TRUE, FALSE>>, <<FALSE, TRUE>>}

\* main's locals before its first statement, for the command line a
SelStart(a) ==
    [pc |-> "start", args |-> a, root_path |-> None, start_date |-> 0, end_date |-> 0,
     todo |-> {}, printed |-> <<>>, count |-> 0, nigts |-> {}, ret |-> 0]

SelArgs(dir, date, raw, exclude_zdf, check, format) ==
    [dir |-> dir, date |-> date, raw |-> raw, exclude_zdf |-> exclude_zdf, check |-> check,
     name |-> format[1], json |-> format[2],
     telescope |-> s_star, object |-> s_star, filter |-> s_star]

\* fitscollect alone
InitSelect ==
    /\ fs = SelFs
    /\ args = MkArgs({}, FALSE, FALSE)
    /\ file_list = <<>>
    /\ InitLocals
    /\ json = JsonIdle
    /\ dl = DlIdle
    /\ pq = PqIdle
    /\ loc = LocIdle
    /\ conv = ConvIdle
    /\ sel \in {SelStart(SelArgs(dir, date, raw, xz, ck, fmt)) :
                   dir \in {s_d_root, s_x_root}, date \in DateArgs, raw \in BOOLEAN,
                   xz \in BOOLEAN, ck \in BOOLEAN, fmt \in SelFormats}

SpecSelect == InitSelect /\ [][NextSelect]_vars

\* both tools, each given, guessing or missing its storage root
InitRoot ==
    /\ fs = SelFs
    /\ args \in {[MkArgs({"master_zero"}, ss, FALSE) EXCEPT !.dir = dir] :
                    ss \in BOOLEAN, dir \in {None, s_d_root, s_x_root}}
    /\ file_list \in {<<>>, <<l_zdf_name>>, <<l_zdf_path, l_foo>>}
    /\ InitLocals
    /\ json = JsonIdle
    /\ dl = DlIdle
    /\ pq = PqIdle
    /\ loc = LocIdle
    /\ conv = ConvIdle
    /\ sel \in {SelStart(SelArgs(dir, date, raw, FALSE, FALSE, <<FALSE, FALSE>>)) :
                   dir \in {None, s_d_root, s_x_root}, date \in {None, <<t_571>>},
                   raw \in BOOLEAN}

NextRoot == Next \/ NextSelect

SpecRoot == InitRoot /\ [][NextRoot]_vars

---------------------------------------------------------------------------
(* C13 *)

\* the value main of fitscollectcalib returns after process_files returned
main_ret_code == 0

\* fitscollectcalib found no storage root
CalibRootMissing == pc = "no_root"

\* fitscollect ended for want of a storage root
SelRootMissing ==
    sel.pc = "exited" /\ ~sel_root_path(sel.args.dir)[2]

\* C13: when the storage root is not an existing directory, either tool
\* exits with a non-zero status and has printed no data line.
C13_RootMissingIsFatal ==
    /\ CalibRootMissing => (main_ret_code # 0 /\ out = <<>>)
    /\ SelRootMissing => (sel.ret # 0 /\ sel.printed = <<>>)

---------------------------------------------------------------------------
(* C14 *)

\* the file lines fitscollect printed
FileLines == {k \in Positions(sel.printed) : sel.printed[k].class \in {"raw", "zdf"}}

\* two night bounds were given, the first after the second
StartAfterEnd ==
    /\ sel.args.date # None
    /\ Len(sel.args.date) = 2
    /\ ensure_oca_julian(sel.args.date[1]).ok
    /\ ensure_oca_julian(sel.args.date[2]).ok
    /\ ensure_oca_julian(sel.args.date[1]).value > ensure_oca_julian(sel.args.date[2]).value

\* C14: with night bounds start > end, whatever integers they are, no file
\* line is printed and the run ends with return code 0.
C14_EmptyRange ==
    (sel.pc \in {"scan", "exited"} /\ sel_root_path(sel.args.dir)[2] /\ StartAfterEnd)
        => (FileLines = {} /\ (sel.pc = "exited" => sel.ret = 0))

---------------------------------------------------------------------------
(* ocadb-downloader: the remote catalog client *)

\* HTTP status codes the server answers with: success, expired or wrong
\* authorisation, any other failure
Statuses == {200, 401, 500}

\* most tokens the login service issues in one run
MaxTokens == 3

\* most chunks of one file's body
MaxChunks == 2

\* most lines on the standard input
MaxQueue == 2

\* max_retries = 3
max_retries == 3

\* the jwt refresh_jwt returns when the login is answered neither 200 nor 401
empty_jwt == 0

s_part == <<".","p","a","r","t">>

\* mutant: the body is written under the final name
local_filename_final(filename) == filename

\* local_filename = f"{filename}.part"
local_filename(filename) == filename \o s_part

\* os.path.basename: what follows the last "/"
os_basename(p) ==
    LET slashes == {k \in 1..Len(p) : p[k] = "/"}
    IN  IF slashes = {} THEN p ELSE SubSeq(p, MaxOf(slashes) + 1, Len(p))

\* files_queue[i:i + chunk_size] for the chunk that starts at 0-based index i
queue_chunk(queue, i, chunk_size) == Slice(queue, i, i + chunk_size)

\* refresh_jwt answered with status st by a login service that has issued
\* 'issued' tokens: the new jwt, or exit(1) on 401
refresh_jwt(st, issued) ==
    IF st = 200 THEN [exit |-> FALSE, jwt |-> issued + 1, issued |-> issued + 1]
    ELSE IF st = 401 THEN [exit |-> TRUE, jwt |-> empty_jwt, issued |-> issued]
    ELSE [exit |-> FALSE, jwt |-> empty_jwt, issued |-> issued]

\* the login answers the service can give: a new token only below MaxTokens
LoginAnswers(issued) == IF issued < MaxTokens THEN Statuses ELSE Statuses \ {200}

\* main: ping_ocadb_service and the first refresh_jwt, then the read of the
\* standard input; get_filename_url is entered directly in the "single" mode
dl_start ==
    /\ dl.pc = "start"
    /\ \E ping \in {200, 500}, st \in LoginAnswers(dl.issued) :
          dl' = IF ping # 200 \/ refresh_jwt(st, dl.issued).exit
                THEN [dl EXCEPT !.pc = "exit1"]
                ELSE IF dl.fn = "batch" /\ dl.queue = <<>>
                THEN [dl EXCEPT !.pc = "done",
                                !.jwt = refresh_jwt(st, dl.issued).jwt,
                                !.issued = refresh_jwt(st, dl.issued).issued]
                ELSE [dl EXCEPT !.pc = "request",
                                !.jwt = refresh_jwt(st, dl.issued).jwt,
                                !.issued = refresh_jwt(st, dl.issued).issued,
                                !.header_jwt = refresh_jwt(st, dl.issued).jwt,
                                !.max_retries = max_retries]
    /\ UNCHANGED <<fs, dl_others>>

\* resp = requests.post(..., headers=headers) / requests.get(..., headers=headers):
\* the request carries the token the headers were built with
dl_request ==
    /\ dl.pc = "request"
    /\ dl' = [dl EXCEPT !.pc = "await", !.sent = dl.header_jwt]
    /\ UNCHANGED <<fs, dl_others>>

\* the loop body of get_batch_filename_urls / get_filename_url after a
\* response with status st, the login (if made) being answered with login_st
dl_answered(st, login_st) ==
    IF st = 200
    THEN IF dl.fn = "batch"
         THEN [dl EXCEPT !.pc = "open", !.after_refresh = FALSE,
                         !.urls = queue_chunk(dl.queue, dl.chunk, dl.chunk_size)]
         ELSE [dl EXCEPT !.pc = "returned", !.after_refresh = FALSE]
    ELSE IF st = 401
    THEN IF refresh_jwt(login_st, dl.issued).exit
         THEN [dl EXCEPT !.pc = "exit1"]
         ELSE [dl EXCEPT !.pc = "request",
                         !.jwt = refresh_jwt(login_st, dl.issued).jwt,
                         !.issued = refresh_jwt(login_st, dl.issued).issued,
                         !.after_refresh = (login_st = 200)]
    ELSE IF dl.max_retries - 1 < 0
         THEN [dl EXCEPT !.pc = "exit1", !.max_retries = @ - 1]
         ELSE [dl EXCEPT !.pc = "request", !.max_retries = @ - 1, !.after_refresh = FALSE]

dl_response ==
    /\ dl.pc = "await"
    /\ \E st \in Statuses, login_st \in LoginAnswers(dl.issued) :
          dl' = dl_answered(st, login_st)
    /\ UNCHANGED <<fs, dl_others>>

\* download_fits up to open(local_filename, 'wb'): a failed GET raises in
\* raise_for_status, a good one creates or truncates <filename>.part
dl_open ==
    /\ dl.pc = "open"
    /\ dl.urls # <<>>
    /\ \E st \in {200, 500}, total \in 1..MaxChunks :
          dl' = IF st # 200
                THEN [dl EXCEPT !.pc = "raised"]
                ELSE [dl EXCEPT !.pc = "write",
                                !.body = total,
                                !.disk = [n \in DOMAIN dl.disk \cup {local_filename(Head(dl.urls))} |->
                                            IF n = local_filename(Head(dl.urls))
                                            THEN [written |-> 0, total |-> total]
                                            ELSE dl.disk[n]]]
    /\ UNCHANGED <<fs, dl_others>>

\* one iteration of 'for chunk in r.iter_content(...)': a chunk is written,
\* or the connection breaks and the exception leaves download_fits
dl_chunk ==
    /\ dl.pc = "write"
    /\ dl.disk[local_filename(Head(dl.urls))].written < dl.body
    /\ \E broken \in BOOLEAN :
          dl' = IF broken
                THEN [dl EXCEPT !.pc = "raised"]
                ELSE [dl EXCEPT !.disk[local_filename(Head(dl.urls))].written = @ + 1]
    /\ UNCHANGED <<fs, dl_others>>

\* the end of download_fits: os.rename(local_filename, filename) and the DONE
\* line; then the next file, the next chunk of the queue, or the end of main
dl_rename ==
    /\ dl.pc = "write"
    /\ dl.disk[local_filename(Head(dl.urls))].written = dl.body
    /\ dl' = [dl EXCEPT
                !.disk = [n \in (DOMAIN dl.disk \ {local_filename(Head(dl.urls))})
                                    \cup {Head(dl.urls)} |->
                            IF n = Head(dl.urls) THEN dl.disk[local_filename(Head(dl.urls))]
                            ELSE dl.disk[n]],
                !.downloaded = Append(@, Head(dl.urls)),
                !.file_no = @ + 1,
                !.urls = Tail(@),
                !.pc = IF Tail(dl.urls) # <<>> THEN "open"
                       ELSE IF dl.chunk + dl.chunk_size < Len(dl.queue) THEN "request"
                       ELSE "done",
                !.chunk = IF Tail(dl.urls) = <<>> THEN @ + dl.chunk_size ELSE @,
                !.header_jwt = IF Tail(dl.urls) = <<>> THEN dl.jwt ELSE @,
                !.max_retries = IF Tail(dl.urls) = <<>> THEN max_retries ELSE @]
    /\ UNCHANGED <<fs, dl_others>>

NextDownload == dl_start \/ dl_request \/ dl_response \/ dl_open \/ dl_chunk \/ dl_rename

\* main's locals before its first statement
DlStart(fn, lines, chunk_size) ==
    [pc |-> "start", fn |-> fn,
     queue |-> [k \in 1..Len(lines) |-> os_basename(strip(lines[k]))],
     chunk_size |-> chunk_size, chunk |-> 0, urls |-> <<>>, file_no |-> 0,
     jwt |-> empty_jwt, header_jwt |-> empty_jwt, max_retries |-> max_retries,
     issued |-> 0, sent |-> empty_jwt, after_refresh |-> FALSE,
     body |-> 0, disk |-> << >>, downloaded |-> <<>>]

\* the downloader alone: a batch run over up to MaxQueue lines, or one call
\* of get_filename_url
InitDownload ==
    /\ fs = ChainFs
    /\ args = MkArgs({}, FALSE, FALSE)
    /\ file_list = <<>>
    /\ InitLocals
    /\ json = JsonIdle
    /\ sel = SelIdle
    /\ pq = PqIdle
    /\ loc = LocIdle
    /\ conv = ConvIdle
    /\ dl \in {DlStart("batch", lines, cs) :
                  lines \in UNION {[1..k -> {l_zdf_path, n_zero}] : k \in 0..MaxQueue},
                  cs \in 1..2}
              \cup {DlStart("single", <<n_zero>>, 1)}

SpecDownload == InitDownload /\ [][NextDownload]_vars

\* the client keeps running while it has a step to take
SpecDownloadLive == SpecDownload /\ WF_vars(NextDownload)

---------------------------------------------------------------------------
(* C15 *)

\* C15: the request sent after a 401 was answered by a fresh token carries
\* that token.
C15_RetryCarriesNewToken ==
    (dl.pc = "await" /\ dl.after_refresh) => dl.sent = dl.jwt

---------------------------------------------------------------------------
(* C16 *)

\* C16: whatever the server answers, the request loop ends: the function
\* returns or the program exits.
C16_RequestLoopEnds ==
    <>(dl.pc \notin {"start", "request", "await"})

---------------------------------------------------------------------------
(* C17 *)

\* the files of the local directory that are not temporary
FinalFiles == {n \in DOMAIN dl.disk : ~EndsWith(n, s_part)}

\* C17: a file under a final name holds a whole body and a download of
\* that name has completed; a download that broke leaves only <filename>.part.
C17_FinalOnlyWhenComplete ==
    dl.pc # "off" =>
        \A n \in FinalFiles :
            /\ dl.disk[n].written = dl.disk[n].total
            /\ \E k \in Positions(dl.downloaded) : dl.downloaded[k] = n

\* the second download broke after its first chunk: its .part file is left,
\* its final name does not exist, the first file is in place
C17_Witness ==
    /\ dl.pc = "raised"
    /\ dl.urls # <<>>
    /\ local_filename(Head(dl.urls)) \in DOMAIN dl.disk
    /\ dl.disk[local_filename(Head(dl.urls))].written = 1
    /\ dl.disk[local_filename(Head(dl.urls))].total = 2
    /\ Head(dl.urls) \notin DOMAIN dl.disk
    /\ FinalFiles # {}

---------------------------------------------------------------------------
(* fitscollectparquet: the indexed (tabular report) strategy *)

s_report_parquet == <<"_","r","e","p","o","r","t",".","p","a","r","q","u","e","t">>
s_star_report == <<"*">> \o s_report_parquet

\* the character '\x7f'
c_del == "DEL"

\* the characters of the model in the order of their code points
AsciiOrder ==
    <<" ", "*", "-", ".", "/", "0","1","2","3","4","5","6","7","8","9", ":",
      "A","B","C","D","E","F","G","H","I","J","K","L","M",
      "N","O","P","Q","R","S","T","U","V","W","X","Y","Z", "_",
      "a","b","c","d","e","f","g","h","i","j","k","l","m",
      "n","o","p","q","r","s","t","u","v","w","x","y","z", c_del>>

CharCode(c) == CHOOSE k \in 1..Len(AsciiOrder) : AsciiOrder[k] = c

\* a <= b for Python strings
RECURSIVE StrLeq(_, _)
StrLeq(a, b) ==
    IF a = <<>> THEN TRUE
    ELSE IF b = <<>> THEN FALSE
    ELSE IF Head(a) # Head(b) THEN CharCode(Head(a)) < CharCode(Head(b))
    ELSE StrLeq(Tail(a), Tail(b))

\* sorted(S) for a set of strings
RECURSIVE SortStrings(_)
SortStrings(S) ==
    IF S = {} THEN <<>>
    ELSE LET least == CHOOSE x \in S : \A y \in S : StrLeq(x, y)
         IN  <<least>> \o SortStrings(S \ {least})

\* the lower-case form of a character (comparison under case=False)
LowerChar(c) ==
    IF \E k \in 17..42 : AsciiOrder[k] = c THEN AsciiOrder[CharCode(c) + 27] ELSE c

\* p.replace('*', '.*')
RECURSIVE star_to_regex(_)
star_to_regex(p) ==
    IF p = <<>> THEN <<>>
    ELSE (IF Head(p) = "*" THEN <<".", "*">> ELSE <<Head(p)>>) \o star_to_regex(Tail(p))

\* re.fullmatch of value against a regular expression made of literal
\* characters, '.' and the postfix '*', ignoring case
RECURSIVE regex_fullmatch(_, _)
regex_fullmatch(value, re) ==
    IF re = <<>> THEN value = <<>>
    ELSE IF Len(re) >= 2 /\ re[2] = "*"
         THEN \/ regex_fullmatch(value, SubSeq(re, 3, Len(re)))
              \/ /\ value # <<>>
                 /\ (re[1] = "." \/ LowerChar(re[1]) = LowerChar(Head(value)))
                 /\ regex_fullmatch(Tail(value), re)
    ELSE /\ value # <<>>
         /\ (re[1] = "." \/ LowerChar(re[1]) = LowerChar(Head(value)))
         /\ regex_fullmatch(Tail(value), Tail(re))

\* df[col].str.fullmatch('|'.join(p.replace('*', '.*') for p in pats), case=False)
str_fullmatch(value, pats) ==
    \E k \in 1..Len(pats) : regex_fullmatch(value, star_to_regex(pats[k]))

\* any('*' in p for p in pats)
any_star(pats) == \E k \in 1..Len(pats) : \E j \in 1..Len(pats[k]) : pats[k][j] = "*"

\* an optional command-line value is given; a column name is a string of
\* the model, and --values holds its one name as <<name>>
given(v) == v # None

\* main's choice of the parquet files, in order
parquet_files(analytic_dir, a) ==
    IF given(a.telescope) /\ ~any_star(a.telescope)
    THEN [k \in 1..Len(a.telescope) |->
            PathJoin(analytic_dir, a.telescope[k] \o s_report_parquet)]
    ELSE IF is_dir(analytic_dir)
    THEN [k \in 1..Len(SortStrings({n \in {fs[analytic_dir][j] : j \in 1..Len(fs[analytic_dir])} :
                                       fnmatch(n, s_star_report)})) |->
            PathJoin(analytic_dir,
                     SortStrings({n \in {fs[analytic_dir][j] : j \in 1..Len(fs[analytic_dir])} :
                                     fnmatch(n, s_star_report)})[k])]
    ELSE <<>>

\* the pyarrow filters main builds
pa_filters(a) ==
    (IF a.imagetyp # <<>> THEN <<[col |-> "IMAGETYP", op |-> "==", val |-> a.imagetyp]>> ELSE <<>>)
    \o (IF given(a.telescope) THEN <<[col |-> "TELESCOP", op |-> "in", val |-> a.telescope]>> ELSE <<>>)
    \o (IF given(a.filter) THEN <<[col |-> "FILTER", op |-> "in", val |-> a.filter]>> ELSE <<>>)
    \o (IF given(a.pi) /\ ~any_star(a.pi)
        THEN <<[col |-> "PI", op |-> "in", val |-> a.pi]>> ELSE <<>>)
    \o (IF given(a.sciprog) /\ ~any_star(a.sciprog)
        THEN <<[col |-> "SCIPROG", op |-> "in", val |-> a.sciprog]>> ELSE <<>>)
    \o (IF given(a.min_exptime)
        THEN <<[col |-> "EXPTIME", op |-> ">=", val |-> a.min_exptime[1]]>> ELSE <<>>)
    \o (IF given(a.max_exptime)
        THEN <<[col |-> "EXPTIME", op |-> "<=", val |-> a.max_exptime[1]]>> ELSE <<>>)
    \o (IF given(a.min_airmass)
        THEN <<[col |-> "AIRMASS", op |-> ">=", val |-> a.min_airmass[1]]>> ELSE <<>>)
    \o (IF given(a.max_airmass)
        THEN <<[col |-> "AIRMASS", op |-> "<=", val |-> a.max_airmass[1]]>> ELSE <<>>)
    \o (IF given(a.date)
        THEN <<[col |-> "DATE-OBS", op |-> "str>=", val |-> a.date[1]],
               [col |-> "DATE-OBS", op |-> "str<=",
                val |-> Append(a.date[IF Len(a.date) = 1 THEN 1 ELSE 2], c_del)]>>
        ELSE <<>>)

\* one pushed-down predicate on one row
pa_holds(row, f) ==
    IF f.op = "==" THEN row[f.col] = f.val
    ELSE IF f.op = "in" THEN \E k \in 1..Len(f.val) : f.val[k] = row[f.col]
    ELSE IF f.op = ">=" THEN row[f.col] >= f.val
    ELSE IF f.op = "<=" THEN row[f.col] <= f.val
    ELSE IF f.op = "str>=" THEN StrLeq(f.val, row[f.col])
    ELSE StrLeq(row[f.col], f.val)

\* the columns of a report
Columns == {"id", "TELESCOP", "FILTER", "PI", "SCIPROG", "OBJECT", "IMAGETYP",
            "EXPTIME", "AIRMASS", "fwhm_x", "fwhm_y", "DATE-OBS"}

\* the rows of the report file at path pf (none when the file is not one
\* of the reports)
RowsOfFile(pf, reports) ==
    IF \E t \in DOMAIN reports : PathName(pf) = t \o s_report_parquet
    THEN reports[CHOOSE t \in DOMAIN reports : PathName(pf) = t \o s_report_parquet]
    ELSE <<>>

\* pd.read_parquet(pf, filters=...) of every file that exists, concatenated
RECURSIVE read_all(_, _, _)
read_all(files, filters, reports) ==
    IF files = <<>> THEN <<>>
    ELSE (IF file_exists(Head(files))
          THEN SelectSeq(RowsOfFile(Head(files), reports),
                         LAMBDA row : \A k \in 1..Len(filters) : pa_holds(row, filters[k]))
          ELSE <<>>)
         \o read_all(Tail(files), filters, reports)

\* the post-load filters on one row
post_load_keeps(row, a) ==
    /\ given(a.object) => str_fullmatch(row["OBJECT"], a.object)
    /\ (given(a.telescope) /\ any_star(a.telescope)) => str_fullmatch(row["TELESCOP"], a.telescope)
    /\ (given(a.filter) /\ any_star(a.filter)) => str_fullmatch(row["FILTER"], a.filter)
    /\ (given(a.pi) /\ any_star(a.pi)) => str_fullmatch(row["PI"], a.pi)
    /\ (given(a.sciprog) /\ any_star(a.sciprog)) => str_fullmatch(row["SCIPROG"], a.sciprog)
    /\ given(a.min_fwhm) => row["fwhm_x"] + row["fwhm_y"] >= 2 * a.min_fwhm[1]
    /\ given(a.max_fwhm) => row["fwhm_x"] + row["fwhm_y"] <= 2 * a.max_fwhm[1]

zdf_path(fits_root, row) ==
    PathJoinAll(fits_root, <<row["TELESCOP"], s_processed_ofp, s_science,
                             Slice(row["id"], 6, 10), row["id"],
                             row["id"] \o <<"_">> \o s_zdf \o s_dot_fits>>)

raw_path(fits_root, row) ==
    PathJoinAll(fits_root, <<row["TELESCOP"], s_raw, Slice(row["id"], 6, 10),
                             row["id"] \o s_dot_fits>>)

\* the line main prints for path of row, none when --check finds no file
pq_line(path, row, a) ==
    IF a.check /\ ~file_exists(path) THEN <<>>
    ELSE <<(IF a.name THEN PathName(path) ELSE path)
           \o (IF given(a.cols)
               THEN <<"\t">> \o (IF a.cols[1] \in DOMAIN row THEN row[a.cols[1]] ELSE <<>>)
               ELSE <<>>)>>

\* the lines of 'for _, row in df.iterrows()'
RECURSIVE pq_lines(_, _, _)
pq_lines(df, fits_root, a) ==
    IF df = <<>> THEN <<>>
    ELSE (IF a.raw THEN pq_line(raw_path(fits_root, Head(df)), Head(df), a) ELSE <<>>)
         \o (IF ~a.exclude_zdf THEN pq_line(zdf_path(fits_root, Head(df)), Head(df), a) ELSE <<>>)
         \o pq_lines(Tail(df), fits_root, a)

\* the three report directories main can find by itself
s_analytic == <<"/","w","o","r","k","/","v","e","l","a","/","o","c","a","/","a","n","a","l","y","t","i","c">>

detect_analytic_dir == IF is_dir(s_analytic) THEN s_analytic ELSE None

detect_fits_root ==
    IF is_dir(s_camk_fits) THEN s_camk_fits
    ELSE IF is_dir(s_data_fits) THEN s_data_fits
    ELSE IF is_dir(s_mik_fits) THEN s_mik_fits
    ELSE None

\* df.columns before the output
df_columns(a) ==
    Columns \cup (IF given(a.min_fwhm) \/ given(a.max_fwhm) THEN {"_fwhm"} ELSE {})

\* main up to the choice of the parquet files
pq_resolve ==
    /\ pq.pc = "start"
    /\ pq' = LET analytic_dir == IF given(pq.args.analytic_dir) THEN pq.args.analytic_dir
                                 ELSE detect_analytic_dir
                 fits_root == IF given(pq.args.dir) THEN pq.args.dir ELSE detect_fits_root
             IN  IF analytic_dir = None \/ fits_root = None
                 THEN [pq EXCEPT !.pc = "exited", !.ret = 1]
                 ELSE IF parquet_files(analytic_dir, pq.args) = <<>>
                 THEN [pq EXCEPT !.pc = "exited", !.ret = 1,
                                 !.analytic_dir = analytic_dir, !.fits_root = fits_root]
                 ELSE [pq EXCEPT !.pc = "load",
                                 !.analytic_dir = analytic_dir, !.fits_root = fits_root,
                                 !.parquet_files = parquet_files(analytic_dir, pq.args)]
    /\ UNCHANGED <<fs, pq_others>>

\* main: the pushed-down filters and the load
pq_load ==
    /\ pq.pc = "load"
    /\ pq' = IF \A k \in 1..Len(pq.parquet_files) : ~file_exists(pq.parquet_files[k])
             THEN [pq EXCEPT !.pc = "exited", !.ret = 1]
             ELSE [pq EXCEPT !.pc = "filter",
                             !.df = read_all(pq.parquet_files, pa_filters(pq.args), pq.reports)]
    /\ UNCHANGED <<fs, pq_others>>

\* main: the post-load filters
pq_filter ==
    /\ pq.pc = "filter"
    /\ pq' = [pq EXCEPT !.pc = "output",
                        !.df = SelectSeq(pq.df, LAMBDA row : post_load_keeps(row, pq.args))]
    /\ UNCHANGED <<fs, pq_others>>

\* main: --values, or the file lines
pq_output ==
    /\ pq.pc = "output"
    /\ pq' = IF given(pq.args.values)
             THEN IF pq.args.values[1] \notin df_columns(pq.args)
                  THEN [pq EXCEPT !.pc = "exited", !.ret = 1]
                  ELSE [pq EXCEPT !.pc = "exited", !.ret = 0,
                                  !.printed = IF pq.df = <<>> THEN <<>>
                                              ELSE SortStrings({pq.df[k][pq.args.values[1]] :
                                                                   k \in 1..Len(pq.df)})]
             ELSE [pq EXCEPT !.pc = "exited", !.ret = 0,
                             !.printed = pq_lines(pq.df, pq.fits_root, pq.args)]
    /\ UNCHANGED <<fs, pq_others>>

NextParquet == pq_resolve \/ pq_load \/ pq_filter \/ pq_output

(* inputs of the indexed strategy *)

s_a_root == <<"/","a">>
s_jk15 == <<"j","k","1","5">>
s_other == <<"o","t","h","e","r">>
s_zb_star == <<"z","b","*">>
s_I_star == <<"I","*">>
s_Ic == <<"I","c">>
s_mkopernik == <<"m","k","o","p","e","r","n","i","k">>
s_MKOPERNIK == <<"M","K","O","P","E","R","N","I","K">>
s_mk_star == <<"m","k","*">>
s_smith == <<"s","m","i","t","h">>
s_prog1 == <<"p","r","o","g","1">>
s_p_star == <<"p","*">>
s_survey == <<"s","u","r","v","e","y">>
s_SS_For == <<"S","S","_","F","o","r">>
s_ss_for == <<"s","s","_","f","o","r">>
s_SS_star == <<"S","S","*">>
s_NGC300 == <<"N","G","C","3","0","0">>
s_flat == <<"f","l","a","t">>
b_jk15 == <<"j","k","1","5","c","_","0","9","0","0","_","0","0","0","0","7">>
t_dec09 == <<"2","0","2","5","-","1","2","-","0","9">>
t_dec10 == <<"2","0","2","5","-","1","2","-","1","0">>
t_dec09_late == <<"2","0","2","5","-","1","2","-","0","9","T","2","3",":","5","9",":","5","9">>
t_dec10_early == <<"2","0","2","5","-","1","2","-","1","0","T","0","0",":","0","0",":","0","1">>
t_nov30 == <<"2","0","2","5","-","1","1","-","3","0">>
t_nov30_noon == <<"2","0","2","5","-","1","1","-","3","0","T","1","2",":","0","0",":","0","0">>

Row(id, telescop, filter, pi_name, sciprog, object, imagetyp, exptime, airmass, fwhm_x, fwhm_y, date_obs) ==
    ("id" :> id) @@ ("TELESCOP" :> telescop) @@ ("FILTER" :> filter) @@ ("PI" :> pi_name)
    @@ ("SCIPROG" :> sciprog) @@ ("OBJECT" :> object) @@ ("IMAGETYP" :> imagetyp)
    @@ ("EXPTIME" :> exptime) @@ ("AIRMASS" :> airmass)
    @@ ("fwhm_x" :> fwhm_x) @@ ("fwhm_y" :> fwhm_y) @@ ("DATE-OBS" :> date_obs)

\* one report per telescope; airmass in tenths
Reports ==
    (s_zb08 :> <<Row(b_sci, s_zb08, <<"V">>, s_mkopernik, s_prog1, s_SS_For, s_science,
                     30, 12, 2, 4, t_dec09_late),
                 Row(b_raw, s_zb08, s_Ic, s_smith, s_survey, s_NGC300, s_science,
                     5, 20, 4, 4, t_dec10_early),
                 Row(b_flat, s_zb08, <<"V">>, s_mkopernik, s_prog1, s_SS_For, s_flat,
                     30, 12, 2, 2, t_nov30_noon)>>)
    @@ (s_jk15 :> <<Row(b_jk15, s_jk15, <<"V">>, s_mkopernik, s_survey, s_SS_For, s_science,
                        60, 12, 6, 6, t_dec09_late)>>)

\* the chain hierarchy and the analytic directory /a
ParquetFs ==
    [d \in DOMAIN ChainFs \cup {s_a_root} |->
        IF d = s_a_root
        THEN <<s_zb08 \o s_report_parquet, n_notes, s_jk15 \o s_report_parquet>>
        ELSE ChainFs[d]]

\* the command line with no option but -A /a -D /d
PqDefaults ==
    [object |-> None, telescope |-> None, filter |-> None, pi |-> None, sciprog |-> None,
     date |-> None, imagetyp |-> s_science,
     min_exptime |-> None, max_exptime |-> None, min_airmass |-> None, max_airmass |-> None,
     min_fwhm |-> None, max_fwhm |-> None,
     exclude_zdf |-> FALSE, raw |-> FALSE, check |-> FALSE, name |-> FALSE,
     cols |-> None, values |-> None, analytic_dir |-> s_a_root, dir |-> s_d_root]

\* the criteria that take names or patterns
PqNamed ==
    {[PqDefaults EXCEPT !.telescope = t, !.filter = f, !.pi = p, !.sciprog = sp, !.object = o] :
        t \in {None, <<s_zb08>>, <<s_zb_star>>, <<s_jk15, s_zb08>>, <<s_other>>},
        f \in {None, <<<<"V">>>>, <<s_I_star>>},
        p \in {None, <<s_mkopernik>>, <<s_mk_star>>, <<s_MKOPERNIK>>},
        sp \in {None, <<s_prog1>>, <<s_p_star>>},
        o \in {None, <<s_ss_for>>, <<s_SS_star, s_NGC300>>}}

\* the criteria on values, dates and the image type
PqRanged(a) ==
    {a,
     [a EXCEPT !.date = <<t_dec09>>],
     [a EXCEPT !.date = <<t_nov30, t_dec09>>],
     [a EXCEPT !.date = <<t_dec09, t_dec10>>],
     [a EXCEPT !.imagetyp = <<>>],
     [a EXCEPT !.min_exptime = <<10>>, !.max_airmass = <<15>>],
     [a EXCEPT !.max_exptime = <<30>>, !.min_airmass = <<12>>],
     [a EXCEPT !.min_fwhm = <<3>>],
     [a EXCEPT !.max_fwhm = <<4>>, !.imagetyp = s_flat]}

\* the options of the output and of the directories
PqOutputs ==
    {[PqDefaults EXCEPT !.raw = TRUE],
     [PqDefaults EXCEPT !.raw = TRUE, !.exclude_zdf = TRUE, !.name = TRUE],
     [PqDefaults EXCEPT !.check = TRUE, !.raw = TRUE],
     [PqDefaults EXCEPT !.cols = <<"FILTER">>],
     [PqDefaults EXCEPT !.cols = <<"NOPE">>, !.check = TRUE],
     [PqDefaults EXCEPT !.values = <<"FILTER">>],
     [PqDefaults EXCEPT !.values = <<"_fwhm">>],
     [PqDefaults EXCEPT !.values = <<"_fwhm">>, !.max_fwhm = <<4>>, !.pi = <<s_other>>],
     [PqDefaults EXCEPT !.analytic_dir = None],
     [PqDefaults EXCEPT !.dir = None],
     [PqDefaults EXCEPT !.analytic_dir = s_x_root]}

PqStart(a) ==
    [pc |-> "start", args |-> a, reports |-> Reports, analytic_dir |-> None,
     fits_root |-> None, parquet_files |-> <<>>, df |-> <<>>, printed |-> <<>>, ret |-> None]

InitParquet ==
    /\ fs = ParquetFs
    /\ args = MkArgs({}, FALSE, FALSE)
    /\ file_list = <<>>
    /\ InitLocals
    /\ json = JsonIdle
    /\ sel = SelIdle
    /\ dl = DlIdle
    /\ loc = LocIdle
    /\ conv = ConvIdle
    /\ pq \in {PqStart(a) : a \in UNION {PqRanged(n) : n \in PqNamed} \cup PqOutputs}

SpecParquet == InitParquet /\ [][NextParquet]_vars

---------------------------------------------------------------------------
(* C18 *)

\* value matches the glob pattern pat, letters compared without case
glob_matches(value, pat) ==
    fnmatch([k \in 1..Len(value) |-> LowerChar(value[k])],
            [k \in 1..Len(pat) |-> LowerChar(pat[k])])

\* a criterion of names: a pattern when one of its values has a '*',
\* else the listed values themselves
NamesAccept(value, names) ==
    IF any_star(names)
    THEN \E k \in 1..Len(names) : glob_matches(value, names[k])
    ELSE \E k \in 1..Len(names) : value = names[k]

\* row satisfies every criterion given in a
Satisfies(row, a) ==
    /\ a.imagetyp # <<>> => row["IMAGETYP"] = a.imagetyp
    /\ given(a.object) => \E k \in 1..Len(a.object) : glob_matches(row["OBJECT"], a.object[k])
    /\ given(a.telescope) => NamesAccept(row["TELESCOP"], a.telescope)
    /\ given(a.filter) => NamesAccept(row["FILTER"], a.filter)
    /\ given(a.pi) => NamesAccept(row["PI"], a.pi)
    /\ given(a.sciprog) => NamesAccept(row["SCIPROG"], a.sciprog)
    /\ given(a.min_exptime) => row["EXPTIME"] >= a.min_exptime[1]
    /\ given(a.max_exptime) => row["EXPTIME"] <= a.max_exptime[1]
    /\ given(a.min_airmass) => row["AIRMASS"] >= a.min_airmass[1]
    /\ given(a.max_airmass) => row["AIRMASS"] <= a.max_airmass[1]
    /\ given(a.min_fwhm) => row["fwhm_x"] + row["fwhm_y"] >= 2 * a.min_fwhm[1]
    /\ given(a.max_fwhm) => row["fwhm_x"] + row["fwhm_y"] <= 2 * a.max_fwhm[1]
    /\ given(a.date) =>
          /\ StrLeq(Slice(a.date[1], 0, 10), Slice(row["DATE-OBS"], 0, 10))
          /\ StrLeq(Slice(row["DATE-OBS"], 0, 10), Slice(a.date[Len(a.date)], 0, 10))

\* the rows of every report of the analytic directory
AllRows == UNION {{pq.reports[t][k] : k \in 1..Len(pq.reports[t])} : t \in DOMAIN pq.reports}

\* C18: once the filters are applied, the rows kept are exactly the rows of
\* the reports that satisfy every criterion given, a criterion with a '*'
\* being a glob pattern
C18_SelectedAreSatisfying ==
    pq.pc = "output" =>
        {pq.df[k] : k \in 1..Len(pq.df)} = {r \in AllRows : Satisfies(r, pq.args)}

---------------------------------------------------------------------------
(* C19 *)

\* the input lines that are not blank
NonBlankLines == {k \in 1..Len(file_list) : strip(file_list[k]) # <<>>}

\* C19: after the batch the source counter equals the number of non-blank
\* input lines, and every depth-0 line was counted under kind source
C19_RootsCountedAsSource ==
    pc = "done" =>
        /\ summary.source = Cardinality(NonBlankLines)
        /\ \A k \in 1..Len(out) : out[k].level = 0 => out[k].kind = "source"

---------------------------------------------------------------------------
(* find_processed_file_dir as a function of its arguments *)

\* the call and its return
locate ==
    /\ loc.pc = "call"
    /\ loc' = [loc EXCEPT !.pc = "returned",
                          !.result = find_processed_file_dir(loc.basename, loc.suffix,
                                                             loc.root_path)]
    /\ UNCHANGED <<fs, loc_others>>

NextLocate == locate

s_flat_Ic == s_master_f_ \o s_Ic
s_foo == <<"f","o","o">>

\* suffixes: none, every role, a flat with an empty band, a flat without band
\* separator, an unknown one
LocSuffixes == {None, s_zdf, s_master_z, s_master_d, s_flat_suffix, s_flat_Ic,
                s_master_f_, s_master_f, s_foo}

LocBasenames == {b_sci, b_flat, b_dark, b_zero, b_raw, b_jk15}

InitLocate ==
    /\ fs \in {ChainFs, ParquetFs}
    /\ args = MkArgs({}, FALSE, FALSE)
    /\ file_list = <<>>
    /\ InitLocals
    /\ json = JsonIdle
    /\ sel = SelIdle
    /\ dl = DlIdle
    /\ pq = PqIdle
    /\ conv = ConvIdle
    /\ loc \in {[pc |-> "call", basename |-> b, suffix |-> s, root_path |-> r, result |-> None] :
                  b \in LocBasenames, s \in LocSuffixes, r \in {s_d_root, s_x_root}}

SpecLocate == InitLocate /\ [][NextLocate]_vars

---------------------------------------------------------------------------
(* C20 *)

s_slash == <<"/">>
s_processed == <<"p","r","o","c","e","s","s","e","d">>

\* telescope and night as the characters 1-4 and 7-10 of the basename
TelescopeOf(basename) == SubSeq(basename, 1, 4)
NightOf(basename) == SubSeq(basename, 7, 10)

\* the suffix names one of the product kinds of the layout table
KnownKind(suffix) ==
    \/ suffix \in {None, s_zdf, s_master_z, s_master_d}
    \/ (StartsWith(suffix, s_master_f_) /\ Len(suffix) > Len(s_master_f_))

\* the directory of the layout table, its processed tree named tree
LayoutDir(basename, suffix, root, tree) ==
    LET telescope == root \o s_slash \o TelescopeOf(basename) \o s_slash
    IN  IF suffix = None
        THEN telescope \o s_raw \o s_slash \o NightOf(basename)
        ELSE IF suffix = s_zdf
        THEN telescope \o tree \o s_slash \o s_science \o s_slash \o NightOf(basename)
             \o s_slash \o basename
        ELSE IF suffix = s_master_z
        THEN telescope \o tree \o s_slash \o s_zeros \o s_slash \o basename
        ELSE IF suffix = s_master_d
        THEN telescope \o tree \o s_slash \o s_darks \o s_slash \o basename
        ELSE telescope \o tree \o s_slash \o s_flats \o s_slash
             \o (IF Len(suffix) = Len(s_master_f_) THEN <<>>
                 ELSE SubSeq(suffix, Len(s_master_f_) + 1, Len(suffix)) \o s_slash)
             \o basename

\* C20 as stated: for every product kind the resolver returns the directory
\* of the layout table, the processed tree being 'processed' and a name
\* without suffix being raw
C20_LayoutTable ==
    (loc.pc = "returned" /\ KnownKind(loc.suffix)) =>
        loc.result = LayoutDir(loc.basename, loc.suffix, loc.root_path, s_processed)

\* C20 amended: the processed tree is 'processed-ofp'; zdf and the masters
\* resolve to the directory of the table without an existence check (a flat
\* of empty band to flats/{basename}); a name without suffix resolves to the
\* zdf directory when that directory exists and to nothing otherwise; any
\* other suffix resolves to nothing
C20_LayoutTableOfp ==
    loc.pc = "returned" =>
        loc.result =
            IF ~(KnownKind(loc.suffix) \/ loc.suffix = s_master_f_) THEN None
            ELSE IF loc.suffix = None
            THEN (IF LayoutDir(loc.basename, s_zdf, loc.root_path, s_processed_ofp) \in DOMAIN fs
                  THEN LayoutDir(loc.basename, s_zdf, loc.root_path, s_processed_ofp)
                  ELSE None)
            ELSE LayoutDir(loc.basename, loc.suffix, loc.root_path, s_processed_ofp)

\* a flat's directory was resolved, and a name without suffix found no directory
C20_Witness ==
    /\ loc.pc = "returned"
    /\ \/ loc.suffix = s_flat_Ic /\ loc.result # None
       \/ loc.suffix = None /\ loc.result = None

---------------------------------------------------------------------------
(* find_processed_file_dir called twice around a change of the filesystem *)

\* the science directory of the call's basename
LocScienceDir ==
    PathJoinAll(loc.root_path, <<Slice(loc.basename, 0, 4), s_processed_ofp, s_science,
                                 Slice(loc.basename, 6, 10), loc.basename>>)

\* between the two calls the science directory is removed or created
fs_changed ==
    /\ loc.pc = "returned"
    /\ \/ /\ LocScienceDir \in DOMAIN fs
          /\ fs' = [d \in DOMAIN fs \ {LocScienceDir} |-> fs[d]]
       \/ /\ LocScienceDir \notin DOMAIN fs
          /\ fs' = [d \in DOMAIN fs \cup {LocScienceDir} |->
                       IF d = LocScienceDir THEN <<>> ELSE fs[d]]
    /\ loc' = [pc |-> "again", basename |-> loc.basename, suffix |-> loc.suffix,
               root_path |-> loc.root_path, result |-> None, first |-> loc.result]
    /\ UNCHANGED <<args, file_list, pc, root_path, idx, seen, stats, out, calib_files,
                   dbg, exc, summary, json, sel, dl, pq, conv>>

\* the second call, with the arguments of the first
relocate ==
    /\ loc.pc = "again"
    /\ loc' = [loc EXCEPT !.pc = "returned_again",
                          !.result = find_processed_file_dir(loc.basename, loc.suffix,
                                                             loc.root_path)]
    /\ UNCHANGED <<fs, loc_others>>

NextRelocate == locate \/ fs_changed \/ relocate

SpecRelocate == InitLocate /\ [][NextRelocate]_vars

---------------------------------------------------------------------------
(* C21 *)

\* C21: the resolver's result for given arguments is the same in two states
\* of the filesystem
C21_ResultIgnoresFilesystem ==
    loc.pc = "returned_again" => loc.result = loc.first

---------------------------------------------------------------------------
(* C22 *)

RawKinds == {"raw_zero", "raw_dark", "raw_flat"}

\* {root}/{telescope}/raw/{night}/{basename}.fits
CanonicalRaw(root, basename) ==
    root \o s_slash \o TelescopeOf(basename) \o s_slash \o s_raw \o s_slash
    \o NightOf(basename) \o s_slash \o basename \o s_dot_fits

\* C22: every raw node yielded carries the canonical raw location built from
\* the basename of a raw file the walk found, and no path inside a directory
\* the walk expanded
C22_RawPathCanonical ==
    WalkEnded =>
        \A n \in Positions(Yielded) :
            Yielded[n].kind \in RawKinds =>
                /\ \E k \in RawChecks : dbg[k].basename = Yielded[n].basename
                /\ Yielded[n].path = CanonicalRaw(root_path, Yielded[n].basename)
                /\ \A d \in TraversedDirs : ~StartsWith(Yielded[n].path, d \o s_slash)

\* a raw file listed with the extension fz was yielded
C22_Witness ==
    /\ pc = "done"
    /\ \E n \in Positions(Yielded) :
          /\ Yielded[n].kind \in RawKinds
          /\ Yielded[n].basename = b_raw2

---------------------------------------------------------------------------
(* ensure_oca_julian as a function of its argument *)

\* the call and its return; ok FALSE stands for the ValueError raised
convert ==
    /\ conv.pc = "call"
    /\ conv' = [conv EXCEPT !.pc = "returned", !.result = ensure_oca_julian(conv.dt)]
    /\ UNCHANGED <<fs, conv_others>>

NextConvert == convert

\* the reference date 2023-02-23
oca_epoch == <<2023, 2, 23>>

\* the years of the dates drawn: from the year before the reference date to
\* YearSpan years after it
YearSpan == 2

Years == (oca_epoch[1] - 1)..(oca_epoch[1] + YearSpan)

\* the integers drawn
MaxInt == 20

\* the calendar dates <<y, mo, d>> of the years drawn
CalendarDates ==
    {t \in Years \X (1..12) \X (1..31) :
        t[3] <= (IF t[2] = 2
                 THEN (IF (t[1] % 4 = 0 /\ t[1] % 100 # 0) \/ t[1] % 400 = 0 THEN 29 ELSE 28)
                 ELSE IF t[2] \in {4, 6, 9, 11} THEN 30 ELSE 31)}

\* the decimal digits of a natural number, at least width of them
RECURSIVE DigitsOf(_, _)
DigitsOf(n, width) ==
    IF n < 10 /\ width <= 1 THEN <<<<"0","1","2","3","4","5","6","7","8","9">>[n + 1]>>
    ELSE Append(DigitsOf(n \div 10, width - 1),
                <<"0","1","2","3","4","5","6","7","8","9">>[(n % 10) + 1])

\* YYYY-MM-DD
IsoOf(t) == DigitsOf(t[1], 4) \o <<"-">> \o DigitsOf(t[2], 2) \o <<"-">> \o DigitsOf(t[3], 2)

\* str(n)
StrOf(n) == IF n < 0 THEN <<"-">> \o DigitsOf(0 - n, 1) ELSE DigitsOf(n, 1)

\* dt is the text of the calendar date date ("date"), of the integer int
\* ("int"), or of neither ("other")
ConvStart(dt, is, date, int) ==
    [pc |-> "call", dt |-> dt, is |-> is, date |-> date, int |-> int,
     result |-> [ok |-> FALSE, value |-> 0]]

\* the argument is a calendar date, an integer, or neither
InitConvert ==
    /\ fs = ChainFs
    /\ args = MkArgs({}, FALSE, FALSE)
    /\ file_list = <<>>
    /\ InitLocals
    /\ json = JsonIdle
    /\ sel = SelIdle
    /\ dl = DlIdle
    /\ pq = PqIdle
    /\ loc = LocIdle
    /\ conv \in {ConvStart(IsoOf(t), "date", t, 0) : t \in CalendarDates}
                \cup {ConvStart(StrOf(n), "int", <<>>, n) : n \in (0 - MaxInt)..MaxInt}
                \cup {ConvStart(<<" ">> \o StrOf(n) \o <<"\n">>, "int", <<>>, n) : n \in {7, 571}}
                \cup {ConvStart(t_junk, "other", <<>>, 0), ConvStart(<<>>, "other", <<>>, 0),
                      ConvStart(<<"2","0","2","3","-","0","2","-","3","0">>, "other", <<>>, 0)}

SpecConvert == InitConvert /\ [][NextConvert]_vars

---------------------------------------------------------------------------
(* C23 *)

\* date a is before date b
DateBefore(a, b) ==
    \/ a[1] < b[1]
    \/ a[1] = b[1] /\ a[2] < b[2]
    \/ a[1] = b[1] /\ a[2] = b[2] /\ a[3] < b[3]

\* the number of days from the reference date to date t, counted on the calendar
DaysAfterEpoch(t) ==
    IF DateBefore(t, oca_epoch)
    THEN 0 - Cardinality({u \in CalendarDates : ~DateBefore(u, t) /\ DateBefore(u, oca_epoch)})
    ELSE Cardinality({u \in CalendarDates : ~DateBefore(u, oca_epoch) /\ DateBefore(u, t)})

\* C23: a calendar date n days after 2023-02-23 converts to n, and an
\* argument that is an integer converts to itself
C23_DaysFromEpoch ==
    conv.pc = "returned" =>
        /\ conv.is = "date" =>
              (conv.result.ok /\ conv.result.value = DaysAfterEpoch(conv.date))
        /\ conv.is = "int" => (conv.result.ok /\ conv.result.value = conv.int)

\* 2023-02-24 was converted to night 1
C23_Witness ==
    /\ conv.pc = "returned"
    /\ conv.date = <<2023, 2, 24>>
    /\ conv.result.value = 1

---------------------------------------------------------------------------
(* walks over the chain with a master of another observation listed in it *)

b_stray == <<"z","b","0","8","c","_","0","5","6","7","_","0","0","0","0","9">>
n_stray_flat == b_stray \o <<"_">> \o s_flat_suffix \o s_dot_fits
n_stray_dark == b_stray \o <<"_">> \o s_master_d \o s_dot_fits
n_stray_zero == b_stray \o <<"_">> \o s_master_z \o s_dot_fits
d_stray_dark == PathJoinAll(s_d_root, <<s_zb08, s_processed_ofp, s_darks, b_stray>>)

Strays == {n_stray_flat, n_stray_dark, n_stray_zero}

\* the chain with the stray master s listed in directory d, the stray
\* dark's own directory (holding a raw frame) present or not
StrayFs(d, s, with_dir) ==
    [x \in DOMAIN ChainFs \cup (IF with_dir THEN {d_stray_dark} ELSE {}) |->
        IF x = d_stray_dark THEN <<n_stray_dark, n_raw_fz>>
        ELSE IF x = d THEN Append(ChainFs[x], s)
        ELSE ChainFs[x]]

InitStray ==
    /\ fs \in {StrayFs(d, s, w) : d \in ProductDirs, s \in Strays, w \in BOOLEAN}
    /\ args \in {MkArgs(p, FALSE, FALSE) : p \in SUBSET Kinds}
    /\ file_list = <<n_sci_zdf>>
    /\ InitRest

SpecStray == InitStray /\ [][Next]_vars

---------------------------------------------------------------------------
(* C24 *)

\* the kinds found directly below a kind in the dependency DAG
DagBelow(kind) ==
    IF kind = "master_flat" THEN {"master_dark", "master_zero", "raw_flat"}
    ELSE IF kind = "master_dark" THEN {"master_zero", "raw_dark"}
    ELSE IF kind = "master_zero" THEN {"raw_zero"}
    ELSE {}

\* with every kind requested each directory entered below the root is that
\* of a yielded node: the parent of node n is the nearest node before it
\* that is one level higher
ParentOf(q, n) == CHOOSE p \in 1..(n - 1) :
                      /\ q[p].level = q[n].level - 1
                      /\ \A r \in (p + 1)..(n - 1) : q[r].level >= q[n].level

\* C24: no yielded node is deeper than 4, and with every kind requested each
\* node below depth 1 is of a kind the DAG puts directly below its parent's
C24_EdgesOfTheDag ==
    WalkEnded =>
        \A n \in Positions(Yielded) :
            /\ Yielded[n].level <= 4
            /\ (PolicyOf(args) = Kinds /\ Yielded[n].level > 1) =>
                  Yielded[n].kind \in DagBelow(Yielded[ParentOf(Yielded, n)].kind)

---------------------------------------------------------------------------
(* batches over hierarchies with branches, every policy *)

OrderLines == {l_zdf_name, l_zero_path, l_blank, l_foo}

InitOrder ==
    /\ fs \in {ChainFs, DiamondFs, StrayFs(d_zero, n_stray_dark, TRUE),
               StrayFs(d_flat, n_stray_zero, FALSE)}
    /\ args \in {MkArgs(p, ss, FALSE) : p \in SUBSET Kinds, ss \in BOOLEAN}
    /\ file_list \in UNION {[1..k -> OrderLines] : k \in 0..MaxLines}
    /\ InitRest

SpecOrder == InitOrder /\ [][Next]_vars

---------------------------------------------------------------------------
(* C25 *)

\* the pre-order traversal below node = <<basename, suffix>> at depth level,
\* as the sequence of [level, name]: for each file the node's directory
\* lists, in listing order, the child itself if its kind is requested, then
\* the traversal below the child if a kind below it is requested
RECURSIVE PreOrder(_, _)
RECURSIVE PreOrderOf(_, _, _)
PreOrderOf(names, level, node) ==
    IF names = <<>> THEN <<>>
    ELSE (IF extract_basename(Head(names)) = node \/ extract_basename(Head(names))[1] = None
          THEN <<>>
          ELSE (IF ChildKind(node[2], extract_basename(Head(names))[2]) \in PolicyOf(args)
                THEN <<[level |-> level + 1,
                        name |-> IF extract_basename(Head(names))[2] = None
                                 THEN extract_basename(Head(names))[1] \o s_dot_fits
                                 ELSE Head(names)]>>
                ELSE <<>>)
               \o (IF /\ extract_basename(Head(names))[2] # None
                      /\ EnterFor(extract_basename(Head(names))[2]) \cap PolicyOf(args) # {}
                      /\ level + 1 < RecursionLimit
                   THEN PreOrder(level + 1, extract_basename(Head(names)))
                   ELSE <<>>))
         \o PreOrderOf(Tail(names), level, node)

PreOrder(level, node) ==
    PreOrderOf(glob_fits_fz(find_processed_file_dir(node[1], node[2], root_path)), level, node)

\* the lines of a batch: for each non-blank input line in input order its
\* root (unless --skip-source), then the pre-order traversal below it
RECURSIVE ExpectedOut(_)
ExpectedOut(k) ==
    IF k = 0 THEN <<>>
    ELSE ExpectedOut(k - 1)
         \o (IF LineAt(k) = <<>> THEN <<>>
             ELSE (IF args.skip_source THEN <<>>
                   ELSE <<[level |-> 0, name |-> PathName(LineAt(k))]>>)
                  \o (IF extract_basename(LineAt(k))[1] = None THEN <<>>
                      ELSE PreOrder(0, extract_basename(LineAt(k)))))

\* C25: the output of a batch without --skip-duplicates is, root by root in
\* input order, the root followed by the pre-order traversal below it
C25_PreOrder ==
    pc = "done" =>
        [k \in 1..Len(out) |-> [level |-> out[k].level, name |-> PathName(out[k].line)]]
            = ExpectedOut(Len(file_list))

\* two roots were printed, and below one of them a child with a node of its
\* recursion was followed by the child's next sibling
C25_Witness ==
    /\ pc = "done"
    /\ Cardinality({k \in 1..Len(out) : out[k].level = 0}) = 2
    /\ \E n \in 1..(Len(out) - 2) :
          /\ out[n].level = 2 /\ out[n + 1].level = 3 /\ out[n + 2].level = 2

---------------------------------------------------------------------------
(* C26 *)

\* the raw files, other than the node itself, listed in the directory
\* expanded at log position k, as pairs <<k, position in the listing>>
RawListedAt(k) ==
    {<<k, j>> : j \in {i \in Positions(glob_fits_fz(dbg[k].at)) :
                         /\ extract_basename(glob_fits_fz(dbg[k].at)[i])[1] # None
                         /\ extract_basename(glob_fits_fz(dbg[k].at)[i])[2] = None
                         /\ extract_basename(glob_fits_fz(dbg[k].at)[i])
                                # <<dbg[k].basename, dbg[k].suffix>>}}

\* C26: the raw nodes a walk yields are, basename by basename and kind by
\* kind, as many as the raw files listed in the expanded directories whose
\* kind gives that role (zero, dark, flat) and whose role is requested; a raw
\* file listed in a science directory yields nothing
C26_RawRoleFromDirectory ==
    (WalkEnded /\ exc = "none") =>
        \A kind \in RawKinds : \A b \in {b_raw, b_raw2, b_sci} :
            Cardinality({n \in Positions(Yielded) :
                            Yielded[n].kind = kind /\ Yielded[n].basename = b})
            = IF kind \in PolicyOf(args)
              THEN Cardinality(UNION {{p \in RawListedAt(k) :
                                          /\ ChildKind(dbg[k].suffix, None) = kind
                                          /\ extract_basename(glob_fits_fz(dbg[k].at)[p[2]])[1] = b} :
                                      k \in Expanded})
              ELSE 0

\* one raw frame was yielded as a raw flat and as a raw zero, from the
\* directories of a master flat and of a master zero
C26_Witness ==
    /\ pc = "done"
    /\ \E n, q \in Positions(Yielded) :
          /\ Yielded[n].basename = b_raw /\ Yielded[n].kind = "raw_flat"
          /\ Yielded[q].basename = b_raw /\ Yielded[q].kind = "raw_zero"

---------------------------------------------------------------------------
(* C27 *)

\* the listed files that parse to c in the directory expanded at log
\* position k, unless c is the node expanded there
ListedAt(k, c) ==
    IF c = <<dbg[k].basename, dbg[k].suffix>> THEN {}
    ELSE {<<k, j>> : j \in {i \in Positions(glob_fits_fz(dbg[k].at)) :
                              extract_basename(glob_fits_fz(dbg[k].at)[i]) = c}}

\* what the names of the filesystem parse to
ParsedNames == UNION {{extract_basename(fs[d][j]) : j \in Positions(fs[d])} : d \in DOMAIN fs}

\* C27: in a walk that returned, the files examined (and so the only ones
\* yielded or recursed into) are the files listed in the expanded
\* directories that do not parse to the node expanded: the node's own file
\* is passed over in its own directory
C27_SelfSkipped ==
    (WalkEnded /\ exc = "none") =>
        \A c \in ParsedNames :
            Cardinality({k \in Positions(dbg) :
                            /\ dbg[k].msg = "Checking file"
                            /\ <<dbg[k].basename, dbg[k].suffix>> = c})
            = Cardinality(UNION {ListedAt(k, c) : k \in Expanded})

\* the directory of a master flat that lists the flat itself was expanded
C27_Witness ==
    /\ pc = "done"
    /\ exc = "none"
    /\ \E k \in Expanded :
          /\ dbg[k].suffix = s_flat_suffix
          /\ \E j \in Positions(glob_fits_fz(dbg[k].at)) :
                extract_basename(glob_fits_fz(dbg[k].at)[j]) = <<dbg[k].basename, dbg[k].suffix>>

---------------------------------------------------------------------------
(* batches over the chain with one directory missing *)

\* a name of the convention whose suffix names no product kind
n_unknown == b_sci \o <<"_">> \o s_foo \o s_dot_fits

MissingLines == {n_sci_zdf, n_sci_raw, n_flat, n_stray_dark, n_unknown}

InitMissing ==
    /\ fs \in {ChainFs} \cup {MkFs([ChainListing EXCEPT ![d] = Absent]) : d \in ProductDirs}
    /\ args \in {MkArgs(p, ss, FALSE) :
                    p \in {{}, Kinds, {"master_dark"}, {"raw_zero", "master_flat"}},
                    ss \in BOOLEAN}
    /\ file_list \in UNION {[1..k -> MissingLines] : k \in 0..MaxLines}
    /\ InitRest

SpecMissing == InitMissing /\ [][Next]_vars

---------------------------------------------------------------------------
(* C28 *)

\* the directory of the layout for root r = <<basename, suffix>> is not
\* there: the suffix is of no known kind, or the directory does not exist
NoDirectoryFor(r) ==
    \/ ~(KnownKind(r[2]) \/ r[2] = s_master_f_)
    \/ LayoutDir(r[1], IF r[2] = None THEN s_zdf ELSE r[2], root_path, s_processed_ofp)
          \notin DOMAIN fs

\* C28: no walk raises; after the iteration of a root whose directory does
\* not exist or whose suffix is of no known kind the walk's result is empty,
\* the root is the line printed last (unless --skip-source), and the batch
\* goes on to the next line
C28_MissingDirectoryIsEmpty ==
    /\ exc = "none"
    /\ pc # "crashed"
    /\ (pc \in {"loop", "done"} /\ idx > 1 /\ NoDirectoryFor(LastRoot)) =>
          /\ calib_files = <<>>
          /\ ~args.skip_source =>
                (out # <<>> /\ out[Len(out)] = [line |-> LineAt(idx - 1), level |-> 0,
                                                kind |-> suffix_to_kind(LastRoot[2])])
    /\ pc = "done" => idx = Len(file_list) + 1

\* a root with an unknown suffix and a root whose directory is missing were
\* both gone through, with master kinds requested
C28_Witness ==
    /\ pc = "done"
    /\ file_list = <<n_unknown, n_flat>>
    /\ d_flat \notin DOMAIN fs
    /\ args.master_dark
    /\ Len(out) = 2

---------------------------------------------------------------------------
(* fitscollect with night ranges inside and outside 0..9999 *)

RangeArgs ==
    DateArgs \cup {<<t_minus1>>, <<t_minus2, t_minus1>>, <<t_10000, t_10001>>, <<t_10001>>}

InitRange ==
    /\ fs = SelFs
    /\ args = MkArgs({}, FALSE, FALSE)
    /\ file_list = <<>>
    /\ InitLocals
    /\ json = JsonIdle
    /\ dl = DlIdle
    /\ pq = PqIdle
    /\ loc = LocIdle
    /\ conv = ConvIdle
    /\ sel \in {SelStart(SelArgs(dir, date, raw, xz, ck, fmt)) :
                   dir \in {s_d_root, s_x_root}, date \in RangeArgs, raw \in BOOLEAN,
                   xz \in BOOLEAN, ck \in BOOLEAN, fmt \in SelFormats}

SpecRange == InitRange /\ [][NextSelect]_vars

---------------------------------------------------------------------------
(* C29 *)

\* one or two night bounds were given and both convert
RangeGiven ==
    /\ sel.args.date # None
    /\ Len(sel.args.date) \in {1, 2}
    /\ ensure_oca_julian(sel.args.date[1]).ok
    /\ ensure_oca_julian(sel.args.date[Len(sel.args.date)]).ok

\* the night in the name of the file printed as line k
NightOfLine(k) == DigitsValue(NightOf(PathName(sel.printed[k].text)))

\* C29: every file printed is of a night between the start and the end night
\* requested
C29_NightsInRequestedRange ==
    RangeGiven =>
        \A k \in FileLines :
            /\ ensure_oca_julian(sel.args.date[1]).value <= NightOfLine(k)
            /\ NightOfLine(k) <= ensure_oca_julian(sel.args.date[Len(sel.args.date)]).value

---------------------------------------------------------------------------
(* reconstruct_path of fitscollectjson beside find_processed_file_dir *)

\* after the resolver returned, the JSON stage rebuilds the path of the
\* same file from its name
reconstruct ==
    /\ loc.pc = "returned"
    /\ loc' = [loc EXCEPT !.pc = "reconstructed",
                          !.path = reconstruct_path(loc.name, loc.root_path)]
    /\ UNCHANGED <<fs, loc_others>>

NextReconstruct == locate \/ reconstruct

\* the product kinds of the layout, two bands of flats
KindSuffixes == {None, s_zdf, s_master_z, s_master_d, s_flat_suffix, s_flat_Ic}

\* the well-formed name of the product (basename, suffix)
ProductName(basename, suffix) ==
    IF suffix = None THEN basename \o s_dot_fits
    ELSE basename \o <<"_">> \o suffix \o s_dot_fits

InitReconstruct ==
    /\ fs \in {ChainFs, ParquetFs}
    /\ args = MkArgs({}, FALSE, FALSE)
    /\ file_list = <<>>
    /\ InitLocals
    /\ json = JsonIdle
    /\ sel = SelIdle
    /\ dl = DlIdle
    /\ pq = PqIdle
    /\ conv = ConvIdle
    /\ loc \in {[pc |-> "call", basename |-> b, suffix |-> s, root_path |-> r, result |-> None,
                 name |-> ProductName(b, s), path |-> None] :
                  b \in LocBasenames, s \in KindSuffixes, r \in {s_d_root, s_x_root}}

SpecReconstruct == InitReconstruct /\ [][NextReconstruct]_vars

---------------------------------------------------------------------------
(* C30 *)

\* C30: for a zdf or master name reconstruct_path gives the resolver's
\* directory joined with the name, for a raw name the canonical raw path
C30_ReconstructAgreesWithResolver ==
    loc.pc = "reconstructed" =>
        loc.path = IF loc.suffix = None
                   THEN CanonicalRaw(loc.root_path, loc.basename)
                   ELSE PathJoin(loc.result, loc.name)

=============================================================================
